---- MODULE Spec2Model ----
(***************************************************************************)
(* A model of the caskade parameter/module dependency graph:               *)
(*   base.py        Node: link, unlink, topological_ordering, active,      *)
(*                  update_graph                                           *)
(*   param.py       Param: the value / dynamic_value setters and getter,   *)
(*                  to_dynamic, to_static                                  *)
(*   module.py      Module: update_graph caches, fill_params, clear_params *)
(*   context.py     ActiveContext, ValidContext, OverrideParam             *)
(*   decorators.py  forward                                                *)
(*   collection.py  NodeList                                               *)
(*                                                                         *)
(* The program is single threaded: every action below is one complete call *)
(* of one method, run to its return or to the exception it raises.  The    *)
(* exception (or "" for a normal return) is recorded in last.err.          *)
(***************************************************************************)
EXTENDS Integers, Sequences, FiniteSets, TLC

(***************************************************************************)
(* The objects.  Every object is constructed once, unlinked and inactive.  *)
(***************************************************************************)
PlainNodes == {"n1", "n2", "n3"}
AllNodes   == PlainNodes \cup {"n4"}
Modules    == {"M", "S"}
Params     == {"a", "b", "c", "d"}
Lists      == {"L"}
Objects    == AllNodes \cup Modules \cup Params \cup Lists

\* Node.name: "n3" and "n4" were constructed with the same name.
name(o) == IF o = "n4" THEN "n3" ELSE o

\* Largest array entry the callers hand in (values are 0..MaxVal).
MaxVal == 2
\* Deepest nesting of context managers / forward calls that is explored.
MaxDepth == 3

None == << >>
Some(v) == << v >>
Vals == 0 .. MaxVal

VARIABLES
  children,             \* Node._children: ordered key -> child map
  parents,              \* Node._parents
  active,               \* Node._active
  type,                 \* Node._type
  value,                \* Param._value
  dynamic_value,        \* Param._dynamic_value
  pointer_func,         \* Param._pointer_func
  valid,                \* Param._valid
  cyclic,               \* Param._cyclic
  transform,            \* Param.to_valid / Param.from_valid: the pair of
                        \* methods bound by the valid setter
  shape,                \* Param._shape: None, or Some(tuple of dimensions)
  dynamic_params,       \* Module.dynamic_params
  all_dynamic_value,    \* Module.all_dynamic_value
  pointer_params,       \* Module.pointer_params
  local_dynamic_params, \* Module.local_dynamic_params
  dynamic_modules,      \* Module.dynamic_modules
  valid_context,        \* Module.valid_context
  items,                \* the list part of a NodeList
  stack,                \* the context managers / forward calls in progress
  last                  \* the call that returned last and how it ended

vars == << children, parents, active, type, value, dynamic_value, pointer_func,
           valid, cyclic, transform, shape, dynamic_params, all_dynamic_value, pointer_params,
           local_dynamic_params, dynamic_modules, valid_context, items, stack,
           last >>

(***************************************************************************)
(* The heap as one value, so that a method body can be written as a        *)
(* sequence of heap transformations.  err is the exception in flight.      *)
(***************************************************************************)
Heap ==
  [ children |-> children, parents |-> parents, active |-> active,
    type |-> type, value |-> value, dynamic_value |-> dynamic_value,
    pointer_func |-> pointer_func, valid |-> valid, cyclic |-> cyclic,
    transform |-> transform, shape |-> shape,
    dynamic_params |-> dynamic_params, all_dynamic_value |-> all_dynamic_value,
    pointer_params |-> pointer_params,
    local_dynamic_params |-> local_dynamic_params,
    dynamic_modules |-> dynamic_modules, valid_context |-> valid_context,
    items |-> items, err |-> "", ret |-> << >> ]

Commit(h) ==
  /\ children' = h.children
  /\ parents' = h.parents
  /\ active' = h.active
  /\ type' = h.type
  /\ value' = h.value
  /\ dynamic_value' = h.dynamic_value
  /\ pointer_func' = h.pointer_func
  /\ valid' = h.valid
  /\ cyclic' = h.cyclic
  /\ transform' = h.transform
  /\ shape' = h.shape
  /\ dynamic_params' = h.dynamic_params
  /\ all_dynamic_value' = h.all_dynamic_value
  /\ pointer_params' = h.pointer_params
  /\ local_dynamic_params' = h.local_dynamic_params
  /\ dynamic_modules' = h.dynamic_modules
  /\ valid_context' = h.valid_context
  /\ items' = h.items

\* err: the exception in flight ("" when none); ret: the value returned
Raise(h, e) == [h EXCEPT !.err = e]
Ok(h) == h.err = ""
Return(h, v) == [h EXCEPT !.ret = v]

Range(s) == { s[i] : i \in 1 .. Len(s) }

(***************************************************************************)
(* base.py: Node                                                           *)
(***************************************************************************)
child_keys(ch, n) == { ch[n][i].key : i \in 1 .. Len(ch[n]) }
child_values(ch, n) == { ch[n][i].node : i \in 1 .. Len(ch[n]) }
\* self.children[key], for a key that is present
child_at(ch, n, key) ==
  (CHOOSE i \in 1 .. Len(ch[n]) : ch[n][i].key = key)

RECURSIVE append_new(_, _)
\* for subnode in sub: if subnode not in ordering: ordering.append(subnode)
append_new(ordering, sub) ==
  IF sub = << >> THEN ordering
  ELSE append_new(IF Head(sub) \in Range(ordering) THEN ordering
                  ELSE Append(ordering, Head(sub)), Tail(sub))

RECURSIVE topological_ordering_no_skip(_, _)
\* A faulty topological_ordering: "if subnode not in ordering" is left out, so
\* a node below two children is listed twice.
topological_ordering_no_skip(ch, n) ==
  LET RECURSIVE walk(_, _)
      walk(ordering, i) ==
        IF i > Len(ch[n]) THEN ordering
        ELSE walk(ordering \o topological_ordering_no_skip(ch, ch[n][i].node),
                  i + 1)
  IN walk(<< n >>, 1)

RECURSIVE topological_ordering(_, _)
topological_ordering(ch, n) ==
  LET RECURSIVE walk(_, _)
      walk(ordering, i) ==
        IF i > Len(ch[n]) THEN ordering
        ELSE walk(append_new(ordering, topological_ordering(ch, ch[n][i].node)),
                  i + 1)
  IN walk(<< n >>, 1)

\* "with_type in n._type": Python substring test on the type tags in use
in_type(sub, t) ==
  \/ sub = t
  \/ sub = "dynamic" /\ t = "dynamic value"
  \/ sub = "value" /\ t = "dynamic value"

topological_ordering_with_type(h, n, with_type) ==
  SelectSeq(topological_ordering(h.children, n),
            LAMBDA x : in_type(with_type, h.type[x]))

RECURSIVE up_closure(_, _)
\* the nodes update_graph reaches from the set S through _parents
up_closure(par, S) ==
  LET T == S \cup UNION { par[x] : x \in S }
  IN IF T = S THEN S ELSE up_closure(par, T)

\* Param.dynamic / Module.dynamic as read from the heap
is_dynamic_param(h, x) == x \in Params /\ in_type("dynamic", h.type[x])

\* Module.update_graph on every Module that Node.update_graph(x) reaches
update_graph(h, x) ==
  LET hit == up_closure(h.parents, {x}) \cap Modules
      local == [m \in Modules |->
                 IF m \in hit
                 THEN SelectSeq(h.children[m],
                                LAMBDA e : is_dynamic_param(h, e.node))
                 ELSE h.local_dynamic_params[m]]
      dyn == [m \in Modules |->
                 IF m \in hit THEN topological_ordering_with_type(h, m, "dynamic")
                 ELSE h.dynamic_params[m]]
  IN [h EXCEPT
        !.dynamic_params = dyn,
        !.all_dynamic_value =
            [m \in Modules |->
               IF m \in hit
               THEN \A i \in 1 .. Len(dyn[m]) : in_type("value", h.type[dyn[m][i]])
               ELSE h.all_dynamic_value[m]],
        !.pointer_params =
            [m \in Modules |->
               IF m \in hit THEN topological_ordering_with_type(h, m, "pointer")
               ELSE h.pointer_params[m]],
        !.local_dynamic_params = local,
        !.dynamic_modules =
            [m \in Modules |->
               IF m \in hit
               THEN Some(SelectSeq(topological_ordering(h.children, m),
                                   LAMBDA y : y \in Modules /\ Len(local[y]) > 0))
               ELSE h.dynamic_modules[m]] ]

\* A faulty link: the child is recorded before the checks are made, so a
\* rejected call leaves the new entry behind.
link_checks_late(h, self, key, child) ==
  LET g == [h EXCEPT !.children[self] = Append(@, [key |-> key, node |-> child]),
                     !.parents[child] = @ \cup {self}]
  IN IF \/ h.active[self]
        \/ key \in child_keys(h.children, self)
        \/ child \in child_values(h.children, self)
        \/ self \in Range(topological_ordering(h.children, child))
     THEN Raise(g, "GraphError")
     ELSE update_graph(g, self)

\* A faulty link: the cycle check is left out.  When the new link closes a
\* cycle, update_graph never returns and the interpreter ends it with a
\* RecursionError after the link has been recorded.
link_without_cycle_check(h, self, key, child) ==
  LET g == [h EXCEPT !.children[self] = Append(@, [key |-> key, node |-> child]),
                     !.parents[child] = @ \cup {self}]
  IN IF h.active[self] THEN Raise(h, "GraphError")
     ELSE IF key \in child_keys(h.children, self) THEN Raise(h, "GraphError")
     ELSE IF child \in child_values(h.children, self) THEN Raise(h, "GraphError")
     ELSE IF self \in Range(topological_ordering(h.children, child))
          THEN Raise(g, "RecursionError")
     ELSE update_graph(g, self)

link(h, self, key, child) ==
  IF h.active[self] THEN Raise(h, "GraphError")
  ELSE IF key \in child_keys(h.children, self) THEN Raise(h, "GraphError")
  ELSE IF child \in child_values(h.children, self) THEN Raise(h, "GraphError")
  ELSE IF self \in Range(topological_ordering(h.children, child))
       THEN Raise(h, "GraphError")
  ELSE update_graph(
         [h EXCEPT !.children[self] = Append(@, [key |-> key, node |-> child]),
                   !.parents[child] = @ \cup {self}],
         self)

\* A faulty unlink: the entry is deleted from the children map, but the
\* child keeps self among its parents.
unlink_key_one_sided(h, self, key) ==
  IF key \notin child_keys(h.children, self) THEN Raise(h, "KeyError")
  ELSE LET i == child_at(h.children, self, key)
       IN update_graph([h EXCEPT !.children[self] =
                          SubSeq(@, 1, i - 1) \o SubSeq(@, i + 1, Len(@))],
                       self)

\* the part of unlink after the key has been found (lines 142-145)
unlink_key(h, self, key) ==
  IF key \notin child_keys(h.children, self) THEN Raise(h, "KeyError")
  ELSE LET i == child_at(h.children, self, key)
           child == h.children[self][i].node
           h1 == update_graph([h EXCEPT !.parents[child] = @ \ {self}], child)
           h2 == [h1 EXCEPT !.children[self] =
                     SubSeq(@, 1, i - 1) \o SubSeq(@, i + 1, Len(@))]
       IN update_graph(h2, self)

\* unlink(key) with a str key
unlink(h, self, key) ==
  IF h.active[self] THEN Raise(h, "GraphError")
  ELSE unlink_key(h, self, key)

\* A faulty unlink(node): the check "if self.active" is left out.
unlink_node_unguarded(h, self, node) ==
  IF node \notin child_values(h.children, self) THEN Raise(h, "GraphError")
  ELSE LET i == CHOOSE j \in 1 .. Len(h.children[self]) :
                  /\ h.children[self][j].node = node
                  /\ \A k \in 1 .. j - 1 : h.children[self][k].node # node
       IN unlink_key(h, self, h.children[self][i].key)

\* unlink(node) with a Node: the first key that holds the node
unlink_node(h, self, node) ==
  IF h.active[self] THEN Raise(h, "GraphError")
  ELSE IF node \notin child_values(h.children, self) THEN Raise(h, "GraphError")
  ELSE LET i == CHOOSE j \in 1 .. Len(h.children[self]) :
                  /\ h.children[self][j].node = node
                  /\ \A k \in 1 .. j - 1 : h.children[self][k].node # node
       IN unlink_key(h, self, h.children[self][i].key)

\* A faulty active setter: the flag is not handed down to the children.
active_setter_shallow(act, ch, n, v) == [act EXCEPT ![n] = v]

RECURSIVE active_setter_on_only(_, _, _, _)
\* A faulty active setter: only activation is handed down to the children.
active_setter_on_only(act, ch, n, v) ==
  IF act[n] = v THEN act
  ELSE IF ~v THEN [act EXCEPT ![n] = v]
  ELSE LET RECURSIVE each(_, _)
           each(a, i) ==
             IF i > Len(ch[n]) THEN a
             ELSE each(active_setter_on_only(a, ch, ch[n][i].node, v), i + 1)
       IN each([act EXCEPT ![n] = v], 1)

RECURSIVE active_setter(_, _, _, _)
\* the flags after "n.active = v"
active_setter(act, ch, n, v) ==
  IF act[n] = v THEN act
  ELSE LET RECURSIVE each(_, _)
           each(a, i) ==
             IF i > Len(ch[n]) THEN a
             ELSE each(active_setter(a, ch, ch[n][i].node, v), i + 1)
       IN each([act EXCEPT ![n] = v], 1)

set_active(h, n, v) == [h EXCEPT !.active = active_setter(h.active, h.children, n, v)]

(***************************************************************************)
(* param.py: Param                                                         *)
(*                                                                         *)
(* What a caller assigns to value / dynamic_value:                         *)
(*   [k |-> "none"]               None                                     *)
(*   [k |-> "array", n |-> v,     an array-like of shape s filled with v   *)
(*    shape |-> s]                (a plain number has shape ())            *)
(*   [k |-> "dynamic", ...]       dynamic(array-like): the wrapper that    *)
(*                                the constructor takes                    *)
(*   [k |-> "param", ref |-> q]   the Param q                              *)
(*   [k |-> "callable"]           a function of the parameter; the one     *)
(*                                used is lambda p: sum of p's children's  *)
(*                                values                                   *)
(* _pointer_func is "unset" (attribute never assigned), "none" (None),     *)
(* "ref" (lambda p: p[key].value) or "sum" (the callable above).           *)
(***************************************************************************)
ArgNone == [k |-> "none", ref |-> "", n |-> 0, shape |-> << >>]
ArgArray(v) == [k |-> "array", ref |-> "", n |-> v, shape |-> << >>]
ArgShaped(v, s) == [k |-> "array", ref |-> "", n |-> v, shape |-> s]
ArgDynamic(v, s) == [k |-> "dynamic", ref |-> "", n |-> v, shape |-> s]
ArgParam(q) == [k |-> "param", ref |-> q, n |-> 0, shape |-> << >>]
ArgCallable == [k |-> "callable", ref |-> "", n |-> 0, shape |-> << >>]
\* the callable lambda p: p[m]["c"].value
ArgVia(m) == [k |-> "callable", ref |-> m, n |-> 0, shape |-> << >>]
ArgOf(opt) == IF opt = None THEN ArgNone ELSE ArgArray(opt[1])
\* the value / cached default that p holds itself, handed to a setter: its
\* shape is p's shape
ArgOwn(h, p, opt) ==
  IF opt = None THEN ArgNone
  ELSE ArgShaped(opt[1], IF h.shape[p] = None THEN << >> ELSE h.shape[p][1])

FuncUnset == [k |-> "unset", key |-> ""]
FuncNone == [k |-> "none", key |-> ""]
FuncRef(key) == [k |-> "ref", key |-> key]
FuncSum == [k |-> "sum", key |-> ""]
FuncVia(key) == [k |-> "via", key |-> key]

is_pointer(h, p) == in_type("pointer", h.type[p])
is_static(h, p) == in_type("static", h.type[p])
is_dynamic(h, p) == in_type("dynamic", h.type[p])

RECURSIVE value_getter(_, _)
RECURSIVE call_pointer_func(_, _)

\* self._pointer_func(self)
call_pointer_func(h, p) ==
  LET f == h.pointer_func[p]
      RECURSIVE sum(_, _, _)
      sum(g, i, acc) ==
        IF i > Len(g.children[p]) THEN Return(g, Some(acc))
        ELSE LET c == g.children[p][i].node
                 add(r) == IF ~Ok(r) THEN r
                           ELSE IF r.ret = None THEN Raise(r, "TypeError")
                           ELSE sum(r, i + 1, acc + r.ret[1])
             IN IF c \notin Params THEN Raise(g, "AttributeError")
                ELSE add(value_getter(g, c))
  IN CASE f.k = "unset" -> Raise(h, "AttributeError")
       [] f.k = "none" -> Raise(h, "TypeError")
       [] f.k = "ref" ->
            IF f.key \notin child_keys(h.children, p) THEN Raise(h, "KeyError")
            ELSE LET c == h.children[p][child_at(h.children, p, f.key)].node
                 IN IF c \notin Params THEN Raise(h, "AttributeError")
                    ELSE value_getter(h, c)
       [] f.k = "via" ->
            IF f.key \notin child_keys(h.children, p) THEN Raise(h, "KeyError")
            ELSE LET m == h.children[p][child_at(h.children, p, f.key)].node
                 IN IF "c" \notin child_keys(h.children, m)
                    THEN Raise(h, "KeyError")
                    ELSE LET c == h.children[m][child_at(h.children, m, "c")].node
                         IN IF c \notin Params THEN Raise(h, "AttributeError")
                            ELSE value_getter(h, c)
       [] OTHER -> sum(h, 1, 0)

\* A faulty getter: the result of the resolver is returned but never kept.
value_getter_no_store(h, p) ==
  IF is_pointer(h, p) /\ h.value[p] = None
  THEN call_pointer_func(h, p)
  ELSE Return(h, IF h.value[p] = None THEN h.dynamic_value[p] ELSE h.value[p])

\* Param.value (getter)
value_getter(h, p) ==
  IF is_pointer(h, p) /\ h.value[p] = None
  THEN LET stored(g) == Return(g, IF g.value[p] = None THEN g.dynamic_value[p]
                                  ELSE g.value[p])
           \* r: the heap after self._pointer_func(self)
           keep(r) == IF ~Ok(r) \/ ~r.active[p] THEN r
                      ELSE stored([r EXCEPT !.value[p] = r.ret])
       IN keep(call_pointer_func(h, p))
  ELSE Return(h, IF h.value[p] = None THEN h.dynamic_value[p] ELSE h.value[p])

RECURSIVE unlink_all(_, _, _)
\* for child in tuple(self.children.values()): self.unlink(child)
unlink_all(h, p, kids) ==
  IF kids = << >> \/ ~Ok(h) THEN h
  ELSE unlink_all(unlink_node(h, p, Head(kids).node), p, Tail(kids))

(***************************************************************************)
(* What a caller assigns to valid: None, a tuple of two bounds (each a     *)
(* number or None), a tuple of three numbers, or a list.                   *)
(***************************************************************************)
ValidNone == [k |-> "none", lo |-> << >>, hi |-> << >>]
ValidTuple(lo, hi) == [k |-> "tuple", lo |-> lo, hi |-> hi]
ValidTriple == [k |-> "triple", lo |-> << >>, hi |-> << >>]
ValidList == [k |-> "list", lo |-> << >>, hi |-> << >>]

\* Param.valid (setter).  The bounds are made arrays with dtype=self.dtype,
\* which reads self.value; the comparisons of the value with the bounds only
\* warn.
valid_setter(h, p, arg) ==
  LET lo == arg.lo
      hi == arg.hi
      bind(t) == [h EXCEPT !.transform[p] = t]
      \* r: the heap after self.value has been read
      store(r) == IF ~Ok(r) THEN r
                  ELSE [r EXCEPT !.valid[p] = [lo |-> lo, hi |-> hi],
                                 !.ret = h.ret]
      ordered(r) == IF ~Ok(r) THEN r
                    ELSE IF lo[1] >= hi[1]
                    THEN Raise([r EXCEPT !.ret = h.ret], "ParamConfigurationError")
                    ELSE store(r)
  IN IF arg.k \in {"list", "triple"} THEN Raise(h, "ParamConfigurationError")
     ELSE IF lo = << >> /\ hi = << >>
     THEN IF h.cyclic[p] THEN Raise(h, "ParamConfigurationError")
          ELSE [bind("base") EXCEPT !.valid[p] = [lo |-> lo, hi |-> hi]]
     ELSE IF lo = << >>
     THEN IF h.cyclic[p] THEN Raise(h, "ParamConfigurationError")
          ELSE store(value_getter(bind("rightvalid"), p))
     ELSE IF hi = << >>
     THEN IF h.cyclic[p] THEN Raise(h, "ParamConfigurationError")
          ELSE store(value_getter(bind("leftvalid"), p))
     ELSE ordered(value_getter(bind(IF h.cyclic[p] THEN "cyclic" ELSE "fullvalid"), p))

\* try: self.valid = self._valid  except AttributeError: pass
recheck_valid(h, p) ==
  LET pass(r) == IF r.err = "AttributeError" THEN [r EXCEPT !.err = "", !.ret = h.ret]
                 ELSE r
  IN pass(valid_setter(h, p, ValidTuple(h.valid[p].lo, h.valid[p].hi)))

\* Param.cyclic (setter)
cyclic_setter(h, p, c) == recheck_valid([h EXCEPT !.cyclic[p] = c], p)

\* A faulty dynamic_value setter: the check of the active flag is missing.
dynamic_value_setter_unguarded(h, p, arg) ==
  IF arg.k \in {"param", "callable"} THEN Raise(h, "ParamTypeError")
  ELSE IF arg.k = "none" THEN [h EXCEPT !.dynamic_value[p] = << >>]
  ELSE update_graph([h EXCEPT !.type[p] = "dynamic value",
                              !.dynamic_value[p] = << arg.n >>,
                              !.value[p] = << >>], p)

\* Param.dynamic_value (setter)
dynamic_value_setter(h, p, arg) ==
  IF h.active[p] THEN Raise(h, "ActiveStateError")
  ELSE IF arg.k = "none" THEN [h EXCEPT !.dynamic_value[p] = None]
  ELSE IF arg.k \in {"param", "callable"} THEN Raise(h, "ParamTypeError")
  ELSE LET \* r: the heap after the valid range has been re-checked
           checked(r) == IF Ok(r) THEN update_graph(r, p) ELSE r
           assign(h1) ==
             IF ~Ok(h1) THEN h1
             ELSE checked(recheck_valid(
                    [h1 EXCEPT !.type[p] = "dynamic value",
                               !.pointer_func[p] = FuncNone,
                               !.shape[p] = Some(arg.shape),
                               !.dynamic_value[p] = Some(arg.n),
                               !.value[p] = None],
                    p))
       IN assign(IF is_pointer(h, p) THEN unlink_all(h, p, h.children[p]) ELSE h)

\* Param.value (setter)
value_setter(h, p, arg) ==
  IF h.active[p] THEN Raise(h, "ActiveStateError")
  ELSE
    LET \* r: the heap after the valid range has been re-checked
        checked(r) == IF Ok(r) THEN update_graph(r, p) ELSE r
        \* h2: the heap after self.link(value)
        linked(h2) ==
          IF ~Ok(h2) THEN h2
          ELSE update_graph(
                 [h2 EXCEPT !.pointer_func[p] = FuncRef(name(arg.ref)),
                            !.shape[p] = None,
                            !.value[p] = None,
                            !.dynamic_value[p] = None],
                 p)
        \* h1: the heap after the children of a pointer have been unlinked
        assign(h1) ==
          IF ~Ok(h1) THEN h1
          ELSE CASE arg.k = "none" ->
                      IF h1.value[p] # None
                      THEN dynamic_value_setter(h1, p, ArgOwn(h1, p, h1.value[p]))
                      ELSE update_graph(
                             [h1 EXCEPT !.type[p] = "dynamic",
                                        !.pointer_func[p] = FuncNone,
                                        !.value[p] = None],
                             p)
                 [] arg.k = "param" ->
                      linked(link([h1 EXCEPT !.type[p] = "pointer"], p,
                                  name(arg.ref), arg.ref))
                 [] arg.k = "callable" ->
                      update_graph(
                        [h1 EXCEPT !.type[p] = "pointer",
                                   !.shape[p] = None,
                                   !.pointer_func[p] =
                                     IF arg.ref = "" THEN FuncSum
                                     ELSE FuncVia(arg.ref),
                                   !.value[p] = None,
                                   !.dynamic_value[p] = None],
                        p)
                 [] OTHER ->
                      checked(recheck_valid(
                        [h1 EXCEPT !.type[p] = "static",
                                   !.shape[p] = Some(arg.shape),
                                   !.value[p] = Some(arg.n),
                                   !.dynamic_value[p] = None],
                        p))
    IN assign(IF is_pointer(h, p) THEN unlink_all(h, p, h.children[p]) ELSE h)

\* A faulty to_dynamic: the value of a static Param is dropped instead of
\* being kept as the cached default.
to_dynamic_forget(h, p) ==
  IF is_dynamic(h, p) THEN h
  ELSE update_graph([h EXCEPT !.type[p] = "dynamic", !.value[p] = None,
                              !.dynamic_value[p] = None,
                              !.pointer_func[p] = FuncNone], p)

\* Param.to_dynamic
to_dynamic(h, p) ==
  IF is_dynamic(h, p) THEN h
  ELSE IF is_pointer(h, p)
  THEN LET \* except Exception: self.value = None
           except(s) == IF Ok(s) THEN s
                        ELSE value_setter([s EXCEPT !.err = ""], p, ArgNone)
           try(r) == except(IF Ok(r) THEN dynamic_value_setter(r, p, ArgOf(r.ret))
                            ELSE r)
       IN try(call_pointer_func(h, p))
  ELSE LET assign(r) == dynamic_value_setter(r, p, ArgOwn(r, p, r.ret))
       IN assign(value_getter(h, p))

\* Param.to_static
to_static(h, p) ==
  IF is_static(h, p) THEN h
  ELSE IF is_pointer(h, p)
  THEN LET \* except Exception: raise ParamTypeError
           except(s) == IF Ok(s) THEN s ELSE Raise(s, "ParamTypeError")
           try(r) == except(IF Ok(r) THEN value_setter(r, p, ArgOf(r.ret)) ELSE r)
       IN try(call_pointer_func(h, p))
  ELSE IF h.dynamic_value[p] = None THEN Raise(h, "ParamTypeError")
  ELSE value_setter(h, p, ArgOwn(h, p, h.dynamic_value[p]))

(***************************************************************************)
(* collection.py: NodeList                                                 *)
(***************************************************************************)
RECURSIVE unlink_nodes(_, _, _)
\* NodeList._unlink_nodes: for node in self: self.unlink(node)
unlink_nodes(h, l, its) ==
  IF its = << >> \/ ~Ok(h) THEN h
  ELSE unlink_nodes(unlink_node(h, l, Head(its)), l, Tail(its))

RECURSIVE link_nodes(_, _, _)
\* NodeList._link_nodes: for node in self: self.link(node)
link_nodes(h, l, its) ==
  IF its = << >> \/ ~Ok(h) THEN h
  ELSE link_nodes(link(h, l, name(Head(its)), Head(its)), l, Tail(its))

\* the list after the list operation, or << "raise" >> when list itself raises
list_result(its, op, x) ==
  CASE op = "append" -> << "ok", Append(its, x) >>
    [] op = "insert" -> << "ok", << x >> \o its >>
    [] op = "pop" -> IF its = << >> THEN << "IndexError", its >>
                     ELSE << "ok", SubSeq(its, 1, Len(its) - 1) >>
    [] op = "remove" ->
         IF x \notin Range(its) THEN << "ValueError", its >>
         ELSE LET i == CHOOSE j \in 1 .. Len(its) :
                         its[j] = x /\ \A k \in 1 .. j - 1 : its[k] # x
              IN << "ok", SubSeq(its, 1, i - 1) \o SubSeq(its, i + 1, Len(its)) >>
    [] op = "clear" -> << "ok", << >> >>
    [] op = "setitem" -> IF its = << >> THEN << "IndexError", its >>
                         ELSE << "ok", [its EXCEPT ![1] = x] >>
    [] op = "extend" -> << "ok", Append(its, x) >>
    [] op = "iadd" -> << "ok", Append(its, x) >>
    [] op = "delitem" -> IF its = << >> THEN << "IndexError", its >>
                         ELSE << "ok", Tail(its) >>
    [] op = "setslice" -> << "ok", << x >> \o SubSeq(its, 2, Len(its)) >>
    [] op = "delslice" -> << "ok", SubSeq(its, 2, Len(its)) >>
    [] OTHER -> << "ok", its >>

\* append, insert(0, x), pop(), remove(x), clear(), self[0] = x,
\* extend([x]), self += [x], del self[0], self[0:1] = [x], del self[0:1]:
\* _unlink_nodes(); the list operation; _link_nodes()
list_mutation(h, l, op, x) ==
  LET mutate(h1, r) ==
        IF r[1] # "ok" THEN Raise(h1, r[1])
        ELSE link_nodes([h1 EXCEPT !.items[l] = r[2]], l, r[2])
      unlinked(h1) ==
        IF ~Ok(h1) THEN h1 ELSE mutate(h1, list_result(h1.items[l], op, x))
  IN unlinked(unlink_nodes(h, l, h.items[l]))

(***************************************************************************)
(* The initial state: every object as its constructor leaves it.           *)
(*   Node(name), Module(name), NodeList(), Param(name) for a, b and d,     *)
(*   Param("c", cyclic=True, valid=(0, 2))                                 *)
(***************************************************************************)
NoBounds == [lo |-> None, hi |-> None]

Fresh ==
  [ children |-> [o \in Objects |-> << >>],
    parents |-> [o \in Objects |-> {}],
    active |-> [o \in Objects |-> FALSE],
    type |-> [o \in Objects |->
                IF o \in Modules THEN "module"
                ELSE IF o \in Params THEN "dynamic" ELSE "node"],
    value |-> [p \in Params |-> None],
    dynamic_value |-> [p \in Params |-> None],
    pointer_func |-> [p \in Params |-> FuncNone],
    valid |-> [p \in Params |->
                 IF p = "c" THEN [lo |-> Some(0), hi |-> Some(2)] ELSE NoBounds],
    cyclic |-> [p \in Params |-> p = "c"],
    transform |-> [p \in Params |-> IF p = "c" THEN "cyclic" ELSE "base"],
    shape |-> [p \in Params |-> Some(<< >>)],
    dynamic_params |-> [m \in Modules |-> << >>],
    all_dynamic_value |-> [m \in Modules |-> TRUE],
    pointer_params |-> [m \in Modules |-> << >>],
    local_dynamic_params |-> [m \in Modules |-> << >>],
    dynamic_modules |-> [m \in Modules |-> None],
    valid_context |-> [m \in Modules |-> FALSE],
    items |-> [l \in Lists |-> << >>],
    err |-> "", ret |-> << >> ]

\* the program starts with the heap h, outside every call and context
Start(h) ==
  /\ children = h.children
  /\ parents = h.parents
  /\ active = h.active
  /\ type = h.type
  /\ value = h.value
  /\ dynamic_value = h.dynamic_value
  /\ pointer_func = h.pointer_func
  /\ valid = h.valid
  /\ cyclic = h.cyclic
  /\ transform = h.transform
  /\ shape = h.shape
  /\ dynamic_params = h.dynamic_params
  /\ all_dynamic_value = h.all_dynamic_value
  /\ pointer_params = h.pointer_params
  /\ local_dynamic_params = h.local_dynamic_params
  /\ dynamic_modules = h.dynamic_modules
  /\ valid_context = h.valid_context
  /\ items = h.items
  /\ stack = << >>
  /\ last = [op |-> "init", self |-> "", arg |-> "", err |-> ""]

Init == Start(Fresh)

\* a call returns: the heap it leaves and how it ended
\* (self and arg are recorded for the calls whose claims name them)
Done(op, self, arg, h) ==
  /\ Commit(h)
  /\ last' = [op |-> op, self |-> self, arg |-> arg, err |-> h.err]

Called(op, err) == last.op = op /\ last.err = err
BoolStr(v) == IF v THEN "True" ELSE "False"

(***************************************************************************)
(* The calls a user makes on the graph.                                    *)
(***************************************************************************)
\* self.link(key, child)
Link(self, key, child) ==
  /\ Done("link", "", "", link(Heap, self, key, child))
  /\ UNCHANGED stack

\* self.unlink(key), key a str
Unlink(self, key) ==
  /\ Done("unlink", "", "", unlink(Heap, self, key))
  /\ UNCHANGED stack

\* self.unlink(node), node a Node
UnlinkNode(self, node) ==
  /\ Done("unlink", "", "", unlink_node(Heap, self, node))
  /\ UNCHANGED stack

\* n.active = v
SetActive(n, v) ==
  /\ Done("active", n, BoolStr(v), set_active(Heap, n, v))
  /\ UNCHANGED stack

(***************************************************************************)
(* SpecGraph: plain Nodes that are linked, unlinked and (de)activated.     *)
(***************************************************************************)
NextGraph ==
  \/ \E self \in PlainNodes, child \in PlainNodes :
        \E key \in {name(child), "k"} : Link(self, key, child)
  \/ \E self \in PlainNodes : \E key \in {"n1", "n2", "n3", "k"} : Unlink(self, key)
  \/ \E self \in PlainNodes, node \in PlainNodes : UnlinkNode(self, node)
  \/ \E n \in PlainNodes, v \in BOOLEAN : SetActive(n, v)

SpecGraph == Init /\ [][NextGraph]_vars

(***************************************************************************)
(* SpecDiamond: four Nodes linked by object (key = child.name) and         *)
(* (de)activated; the graphs include the diamond n1 -> n2, n3 -> n4.       *)
(***************************************************************************)
NextDiamond ==
  \/ \E self \in AllNodes, child \in AllNodes : Link(self, name(child), child)
  \/ \E n \in AllNodes, v \in BOOLEAN : SetActive(n, v)

SpecDiamond == Init /\ [][NextDiamond]_vars

(***************************************************************************)
(* Graph vocabulary of the claims.                                         *)
(***************************************************************************)
\* the nodes reachable from n through one or more child links
RECURSIVE below_from(_, _)
below_from(ch, S) ==
  LET T == S \cup UNION { child_values(ch, x) : x \in S }
  IN IF T = S THEN S ELSE below_from(ch, T)
strictly_below(ch, n) == below_from(ch, child_values(ch, n))
below(ch, n) == {n} \cup strictly_below(ch, n)

\* the depth-first pre-order walk with one shared visited list
RECURSIVE preorder(_, _, _)
preorder(ch, n, visited) ==
  IF n \in Range(visited) THEN visited
  ELSE LET RECURSIVE kids(_, _)
           kids(v, i) == IF i > Len(ch[n]) THEN v
                         ELSE kids(preorder(ch, ch[n][i].node, v), i + 1)
       IN kids(Append(visited, n), 1)

NoDuplicates(s) == \A i, j \in 1 .. Len(s) : s[i] = s[j] => i = j

C6_Original ==
  last.op = "active" =>
    \A d \in below(children, last.self) : BoolStr(active[d]) = last.arg

\* C6 amended: after n.active = v, n has active = v; and when n and all its
\* descendants held one common flag before the assignment, n and every
\* descendant have active = v after it.
C6_ConsistentSubtreeFollows ==
  [][ \A n \in AllNodes, v \in BOOLEAN :
        (last' = [op |-> "active", self |-> n, arg |-> BoolStr(v), err |-> ""]) =>
          /\ active'[n] = v
          /\ (\A d \in below(children, n) : active[d] = active[n]) =>
                (\A d \in below(children', n) : active'[d] = v) ]_vars

\* n1 of the diamond has just been activated and n4, below two paths, is active
C6_Witness ==
  /\ last = [op |-> "active", self |-> "n1", arg |-> "True", err |-> ""]
  /\ topological_ordering(children, "n1") = << "n1", "n2", "n4", "n3" >>
  /\ "n4" \in child_values(children, "n3")
  /\ \A d \in below(children, "n1") : active[d]

\* C7: from a graph in which every node is inactive, root.active = true makes
\* every descendant active, and root.active = false right after it leaves root
\* and every descendant inactive (diamonds included).
C7_ActivateThenDeactivate ==
  [][ \A n \in AllNodes :
        ( /\ \A o \in Objects : ~active[o]
          /\ last' = [op |-> "active", self |-> n, arg |-> "True", err |-> ""] ) =>
          /\ \A d \in below(children', n) : active'[d]
          /\ LET off == active_setter(active', children', n, FALSE)
             IN \A d \in below(children', n) : ~off[d] ]_vars

\* the root of the diamond has just been set inactive again, and nothing below
\* it is active
C7_Witness ==
  /\ last = [op |-> "active", self |-> "n1", arg |-> "False", err |-> ""]
  /\ topological_ordering(children, "n1") = << "n1", "n2", "n4", "n3" >>
  /\ "n4" \in child_values(children, "n3")
  /\ \A d \in below(children, "n1") : ~active[d]

\* C10: n.topological_ordering() begins with n, holds exactly the nodes
\* reachable from n, each once, and equals the depth-first pre-order walk
\* (children in insertion order, visited nodes skipped).
C10_OrderingIsPreorder ==
  \A n \in AllNodes :
    LET t == topological_ordering(children, n)
    IN /\ t[1] = n
       /\ Range(t) = below(children, n)
       /\ NoDuplicates(t)
       /\ t = preorder(children, n, << >>)

\* the diamond n1 -> n2 -> n4, n1 -> n3 -> n4: n4 is met twice
C10_Witness ==
  /\ topological_ordering(children, "n1") = << "n1", "n2", "n4", "n3" >>
  /\ "n4" \in child_values(children, "n3")

(***************************************************************************)
(* The calls a user makes on a Param and on a NodeList.                    *)
(***************************************************************************)
\* p.value = arg
SetValue(p, arg) ==
  /\ Done("value", "", "", value_setter(Heap, p, arg))
  /\ UNCHANGED stack

\* p.dynamic_value = arg
SetDynamicValue(p, arg) ==
  /\ Done("dynamic_value", "", "", dynamic_value_setter(Heap, p, arg))
  /\ UNCHANGED stack

\* p.to_dynamic()
ToDynamic(p) ==
  /\ Done("to_dynamic", "", "", to_dynamic(Heap, p))
  /\ UNCHANGED stack

\* p.to_static()
ToStatic(p) ==
  /\ Done("to_static", "", "", to_static(Heap, p))
  /\ UNCHANGED stack

\* p.value (read)
Read(p) ==
  /\ Done("read", "", "", [value_getter(Heap, p) EXCEPT !.ret = None])
  /\ UNCHANGED stack

\* l.append(x), l.insert(0, x), l.pop(), l.remove(x), l.clear(), l[0] = x
ListOps == {"append", "pop"}
ListCall(l, op, x) ==
  /\ Done(op, "", "", list_mutation(Heap, l, op, x))
  /\ UNCHANGED stack

(***************************************************************************)
(* SpecParam: the Module M, the Params a and b and the NodeList L are       *)
(* linked, unlinked, reassigned and (de)activated in any order.            *)
(***************************************************************************)
PParams == {"a", "b"}
PObjects == {"M"} \cup PParams \cup Lists
Args == {ArgNone, ArgArray(1)} \cup {ArgParam(q) : q \in PParams}

NextParam ==
  \/ \E child \in {"a", "L"} : Link("M", name(child), child)
  \/ \E node \in {"a", "L"} : UnlinkNode("M", node)
  \/ \E v \in BOOLEAN : SetActive("M", v)
  \/ \E p \in PParams, arg \in Args : SetValue(p, arg)
  \/ \E p \in PParams : SetDynamicValue(p, ArgArray(1))
  \/ \E p \in PParams : ToDynamic(p)
  \/ \E p \in PParams : ToStatic(p)
  \/ \E l \in Lists, op \in ListOps : ListCall(l, op, "M")

SpecParam == Init /\ [][NextParam]_vars

\* C2: in every reachable state the parent -> child relation is acyclic: no
\* node is reachable from itself through one or more child links.
C2_Acyclic ==
  \A n \in Objects : n \notin strictly_below(children, n)

\* "a.value = b" has just been rejected because b already points to a, and
\* the same assignment would be rejected again
C2_Witness ==
  /\ Called("value", "GraphError")
  /\ "a" \in child_values(children, "b")
  /\ value_setter(Heap, "a", ArgParam("b")).err = "GraphError"

\* C8: no call changes the children map of a node that is active when the
\* call is made: link and unlink of an active node raise GraphError, and the
\* value / dynamic_value assignments, to_dynamic and to_static of an active
\* pointer Param raise and leave every children map as it was.
C8_ActiveChildrenFrozen ==
  [][ /\ \A n \in Objects : active[n] => children'[n] = children[n]
      /\ \A n \in PObjects, x \in PObjects :
           active[n] =>
             /\ link(Heap, n, name(x), x).err = "GraphError"
             /\ link(Heap, n, name(x), x).children = children
             /\ unlink_node(Heap, n, x).err = "GraphError"
             /\ unlink_node(Heap, n, x).children = children
             /\ unlink(Heap, n, name(x)).err = "GraphError"
             /\ unlink(Heap, n, name(x)).children = children
      /\ \A p \in PParams :
           (active[p] /\ is_pointer(Heap, p)) =>
             /\ \A arg \in Args \cup {ArgCallable} :
                  /\ value_setter(Heap, p, arg).err = "ActiveStateError"
                  /\ value_setter(Heap, p, arg).children = children
                  /\ dynamic_value_setter(Heap, p, arg).err = "ActiveStateError"
                  /\ dynamic_value_setter(Heap, p, arg).children = children
             /\ to_dynamic(Heap, p).err = "ActiveStateError"
             /\ to_dynamic(Heap, p).children = children
             /\ to_static(Heap, p).err = "ParamTypeError"
             /\ to_static(Heap, p).children = children ]_vars

\* to_static has just been rejected for the active pointer Param a, which
\* still holds its link to b
C8_Witness ==
  /\ Called("to_static", "ParamTypeError")
  /\ active["a"] /\ type["a"] = "pointer"
  /\ "b" \in child_values(children, "a")

\* C9 as stated: between calls, for every Module m, dynamic_params is the
\* dynamic Params of m.topological_ordering() in that order and pointer_params
\* is the pointer Params of that ordering.
C9_CachesMatchOrdering ==
  \A m \in Modules :
    /\ dynamic_params[m] = topological_ordering_with_type(Heap, m, "dynamic")
    /\ pointer_params[m] = topological_ordering_with_type(Heap, m, "pointer")

(***************************************************************************)
(* module.py: the fill protocol.  A value bundle is a list; its entries    *)
(* are plain numbers, or None where ActiveContext hands back what it read. *)
(***************************************************************************)
RECURSIVE clear_values(_, _)
\* for param in ps: param._value = None
clear_values(val, ps) ==
  IF ps = << >> THEN val
  ELSE clear_values([val EXCEPT ![Head(ps)] = None], Tail(ps))

\* Module.clear_params
clear_params(h, m) ==
  IF ~h.active[m] THEN Raise(h, "ActiveStateError")
  ELSE [h EXCEPT !.value =
          clear_values(@, h.dynamic_params[m] \o h.pointer_params[m])]

\* Param.from_valid: _from_valid_base when no bound is set, _from_valid_cyclic
\* for a cyclic Param with both bounds
param_from_valid(h, p, v) ==
  IF is_pointer(h, p) THEN Raise(h, "ParamTypeError")
  ELSE IF h.valid[p] = NoBounds THEN Return(h, v)
  ELSE IF v = None THEN Raise(h, "TypeError")
  ELSE LET lo == h.valid[p].lo[1]
           hi == h.valid[p].hi[1]
       IN Return(h, Some(((v[1] - lo) % (hi - lo)) + lo))

\* Module.from_valid for a list
from_valid(h, m, params) ==
  LET dyn == h.dynamic_params[m]
      RECURSIVE each(_, _, _)
      each(g, i, out) ==
        IF i > Len(params) THEN Return(g, out)
        ELSE LET take(r) == IF ~Ok(r) THEN r
                            ELSE each(r, i + 1, Append(out, r.ret))
             IN take(param_from_valid(g, dyn[i], params[i]))
  IN IF Len(params) = Len(dyn) THEN each(h, 1, << >>)
     ELSE IF h.dynamic_modules[m] = None THEN Raise(h, "AttributeError")
     ELSE IF Len(params) = Len(h.dynamic_modules[m][1])
     THEN Raise(h, "TypeError")  \* module.from_valid(number, local=True)
     ELSE Raise(h, "FillDynamicParamsSequenceError")

\* Module._fill_values for a list (local=False, dynamic_values=False)
fill_values(h, m, params) ==
  LET dyn == h.dynamic_params[m]
      RECURSIVE each(_, _)
      each(g, i) ==
        IF i > Len(params) THEN g
        ELSE each([g EXCEPT !.value[dyn[i]] = params[i]], i + 1)
  IN IF Len(params) = 0 THEN h
     ELSE IF Len(params) = Len(dyn) THEN each(h, 1)
     ELSE IF h.dynamic_modules[m] = None THEN Raise(h, "AttributeError")
     ELSE IF Len(params) = Len(h.dynamic_modules[m][1])
     THEN Raise(h, "TypeError")  \* module._fill_values(number, local=True)
     ELSE Raise(h, "FillDynamicParamsSequenceError")

\* Module.fill_params
fill_params(h, m, params) ==
  IF ~h.active[m] THEN Raise(h, "ActiveStateError")
  ELSE IF h.valid_context[m]
  THEN LET fill(r) == IF ~Ok(r) THEN r
                       ELSE fill_values(Return(r, << >>), m, r.ret)
       IN fill(from_valid(h, m, params))
  ELSE fill_values(h, m, params)

\* the keyword parameters of the decorated method: def f(self, a=None, c=None)
method_params == << "a", "c" >>

\* A faulty fill_kwargs: a Param without a value is passed on as None.
fill_kwargs_unchecked(h, m) == h

\* Module.fill_kwargs(method_params)
fill_kwargs(h, m) ==
  LET RECURSIVE each(_, _)
      each(g, i) ==
        IF i > Len(method_params) THEN g
        ELSE LET key == method_params[i]
             IN IF key \notin child_keys(g.children, m) THEN each(g, i + 1)
                ELSE LET c == g.children[m][child_at(g.children, m, key)].node
                     IN IF c \notin Params THEN each(g, i + 1)
                        ELSE LET take(r) ==
                                   IF ~Ok(r) THEN r
                                   ELSE IF r.ret = None
                                   THEN Raise(r, "FillDynamicParamsError")
                                   ELSE each(Return(r, << >>), i + 1)
                             IN take(value_getter(g, c))
  IN each(h, 1)

(***************************************************************************)
(* context.py.  A context manager that has been entered is a frame:        *)
(*   kind   "ActiveContext" | "ValidContext" | "OverrideParam" | "forward" *)
(*   obj    self.module / self.param                                       *)
(*   flag   ActiveContext.active; forward: the call entered an             *)
(*          ActiveContext                                                  *)
(*   outer  ActiveContext.outer_active, ValidContext.init_valid            *)
(*   saved  ActiveContext.outer_params, OverrideParam.old_values           *)
(***************************************************************************)
Frame(kind, obj, flag, outer, saved) ==
  [kind |-> kind, obj |-> obj, flag |-> flag, outer |-> outer, saved |-> saved]

\* list(p.value for p in ps)
read_all(h, ps) ==
  LET RECURSIVE each(_, _, _)
      each(g, i, out) ==
        IF i > Len(ps) THEN Return(g, out)
        ELSE LET take(r) == IF ~Ok(r) THEN r
                            ELSE each(r, i + 1, Append(out, r.ret))
             IN take(value_getter(g, ps[i]))
  IN each(h, 1, << >>)

\* ActiveContext.__enter__; ret is outer_params
active_enter(h, m, act) ==
  IF h.active[m] /\ ~act
  THEN LET activate(c) == IF ~Ok(c) THEN c ELSE set_active(c, m, act)
           \* r: the heap after outer_params has been read
           clear(r) == activate(IF Ok(r) THEN clear_params(r, m) ELSE r)
       IN clear(read_all(h, h.dynamic_params[m]))
  ELSE set_active(Return(h, << >>), m, act)

\* A faulty __exit__: the flags are reset but the filled values are kept.
active_exit_no_clear(h, f) == set_active(h, f.obj, f.outer)

\* ActiveContext.__exit__
active_exit(h, f) ==
  LET refill(a) == IF Ok(a) /\ f.outer /\ ~f.flag
                   THEN fill_params(a, f.obj, f.saved) ELSE a
      activate(c) == refill(IF Ok(c) THEN set_active(c, f.obj, f.outer) ELSE c)
  IN activate(IF ~f.outer /\ f.flag THEN clear_params(h, f.obj) ELSE h)

\* the order in which "for node in param.parents" meets the Params
ParamOrder == << "a", "b", "c", "d" >>

RECURSIVE collect_old_values(_, _)
\* OverrideParam._collect_old_values; ret is old_values
collect_old_values(h, p) ==
  LET ps == SelectSeq(ParamOrder,
                      LAMBDA q : q \in h.parents[p] /\ is_pointer(h, q))
      RECURSIVE each(_, _, _)
      each(g, i, old) ==
        IF i > Len(ps) THEN Return(g, old)
        ELSE LET take(r) ==
                   each([r EXCEPT !.value[ps[i]] = None], i + 1, old \o r.ret)
             IN take(collect_old_values(g, ps[i]))
  IN each(h, 1, << << p, h.value[p] >> >>)

\* OverrideParam.__enter__; ret is old_values
override_enter(h, p, v) ==
  LET r == collect_old_values(h, p)
  IN [r EXCEPT !.value[p] = Some(v)]

RECURSIVE override_exit(_, _)
\* OverrideParam.__exit__: for node, value in self.old_values
override_exit(h, old) ==
  IF old = << >> THEN h
  ELSE override_exit([h EXCEPT !.value[Head(old)[1]] = Head(old)[2]], Tail(old))

(***************************************************************************)
(* The graph the context managers and forward calls run on:                *)
(*   b.value = a                        b points to a                      *)
(*   d.value = lambda p: sum of the children's values; d.link(a); d.link(b)*)
(*   M.link(a); M.link(b); M.link(d); S.link(c); M.link(S)                 *)
(* so d is reached from a along two chains of pointers, and M fills (a, c).*)
(***************************************************************************)
Built ==
  link(link(link(link(link(link(link(
    value_setter(value_setter(Fresh, "b", ArgParam("a")), "d", ArgCallable),
    "d", "a", "a"), "d", "b", "b"),
    "M", "a", "a"), "M", "b", "b"), "M", "d", "d"),
    "S", "c", "c"), "M", "S", "S")

InitCtx == Start(Built)

Top == stack[Len(stack)]
Push(f) == stack' = Append(stack, f)
Pop == stack' = SubSeq(stack, 1, Len(stack) - 1)
NoRet(h) == [h EXCEPT !.ret = << >>]

\* with ActiveContext(m, act):
EnterActive(m, act) ==
  /\ Len(stack) < MaxDepth
  /\ LET entered(r) ==
           /\ Done("enter_active", "", "", r)
           /\ IF Ok(r) THEN Push(Frame("ActiveContext", m, act, active[m], r.ret))
              ELSE UNCHANGED stack
     IN entered(active_enter(Heap, m, act))

\* the with block of the innermost ActiveContext is left
ExitActive ==
  /\ stack # << >>
  /\ Top.kind = "ActiveContext"
  /\ Done("exit_active", "", "", active_exit(Heap, Top))
  /\ Pop

\* with ValidContext(m):
EnterValid(m) ==
  /\ Len(stack) < MaxDepth
  /\ Done("enter_valid", "", "", [Heap EXCEPT !.valid_context[m] = TRUE])
  /\ Push(Frame("ValidContext", m, FALSE, valid_context[m], << >>))

ExitValid ==
  /\ stack # << >>
  /\ Top.kind = "ValidContext"
  /\ Done("exit_valid", "", "", [Heap EXCEPT !.valid_context[Top.obj] = Top.outer])
  /\ Pop

\* with OverrideParam(p, v):
EnterOverride(p, v) ==
  /\ Len(stack) < MaxDepth
  /\ LET entered(r) ==
           /\ Done("enter_override", "", "", r)
           /\ Push(Frame("OverrideParam", p, FALSE, FALSE, r.ret))
     IN entered(override_enter(Heap, p, v))

ExitOverride ==
  /\ stack # << >>
  /\ Top.kind = "OverrideParam"
  /\ Done("exit_override", "", "", override_exit(Heap, Top.saved))
  /\ Pop

\* m.fill_params(params)
Fill(m, params) ==
  /\ Done("fill_params", "", "", fill_params(Heap, m, params))
  /\ UNCHANGED stack

\* m.f(params=bundle) or m.f() or m.f(key=v) for the decorated method f, up to
\* the point where the method body starts.  When the wrapper raises before
\* the body, the call is over in this step.
\*   params: << >> (not passed) or << bundle >>;  kw: << >> or << key, v >>
ForwardCall(m, params, kw) ==
  /\ Len(stack) < MaxDepth
  /\ IF active[m]
     THEN /\ params = << >>
          /\ LET over == /\ kw # << >>
                         /\ kw[1] \in child_keys(children, m)
                         /\ children[m][child_at(children, m, kw[1])].node \in Params
                 c == children[m][child_at(children, m, kw[1])].node
                 \* old: the old_values of the OverrideParam; k: the heap
                 \* after fill_kwargs
                 body(old, k) ==
                   IF Ok(k)
                   THEN /\ Done("call", m, "active", k)
                        /\ Push(Frame("forward", m, FALSE, FALSE, old))
                   ELSE /\ Done("forward", m, "active", override_exit(k, old))
                        /\ UNCHANGED stack
                 kwargs(e) == body(e.ret, fill_kwargs(NoRet(e), m))
             IN kwargs(IF over THEN override_enter(Heap, c, kw[2]) ELSE Heap)
     ELSE /\ kw = << >>
          /\ LET f == Frame("ActiveContext", m, TRUE, FALSE, << >>)
                 \* x: the heap after ActiveContext.__exit__
                 reraise(e, x) == IF Ok(x) THEN Raise(x, e) ELSE x
                 \* k: the heap after fill_params and fill_kwargs
                 body(k) ==
                   IF Ok(k)
                   THEN /\ Done("call", m, "inactive", k)
                        /\ Push(Frame("forward", m, TRUE, FALSE, << >>))
                   ELSE /\ Done("forward", m, "inactive",
                                reraise(k.err, active_exit([k EXCEPT !.err = ""], f)))
                        /\ UNCHANGED stack
                 kwargs(p) == body(IF Ok(p) THEN fill_kwargs(p, m) ELSE p)
                 fill(e) == kwargs(IF params = << >> \/ ~Ok(e) THEN e
                                   ELSE fill_params(e, m, params[1]))
             IN fill(active_enter(Heap, m, TRUE))

\* the body of the innermost forward call returns (exc = "") or raises exc
ForwardReturn(exc) ==
  /\ stack # << >>
  /\ Top.kind = "forward"
  /\ LET f == Top
         \* x: the heap after the context managers of the wrapper are left
         left(x) == Done("forward", f.obj, IF f.flag THEN "inactive" ELSE "active",
                         IF Ok(x) THEN Raise(x, exc) ELSE x)
     IN left(IF f.flag
             THEN active_exit(Heap, Frame("ActiveContext", f.obj, TRUE, FALSE, << >>))
             ELSE override_exit(Heap, f.saved))
  /\ Pop

(***************************************************************************)
(* SpecCtx: on the graph Built, context managers are entered and left in   *)
(* LIFO order, forward methods are called and return or raise, bundles are *)
(* filled and values are read; b is reassigned between the calls.          *)
(***************************************************************************)
Bundles == {<< >>, << Some(1) >>} \cup {<< Some(x), Some(MaxVal) >> : x \in 1 .. MaxVal}

NextCtx ==
  \/ \E act \in BOOLEAN : EnterActive("M", act)
  \/ ExitActive
  \/ EnterValid("M")
  \/ ExitValid
  \/ EnterOverride("a", 0)
  \/ ExitOverride
  \/ \E params \in Bundles : Fill("M", params)
  \/ \E m \in Modules, params \in {<< >>} \cup {<< b >> : b \in Bundles},
        kw \in {<< >>, << "c", 0 >>} : ForwardCall(m, params, kw)
  \/ \E exc \in {"", "BodyError"} : ForwardReturn(exc)
  \/ Read("d")
  \/ \E arg \in {ArgArray(1), ArgParam("b")} : stack = << >> /\ SetValue("b", arg)

SpecCtx == InitCtx /\ [][NextCtx]_vars

(***************************************************************************)
(* Reading vocabulary of the claims about context managers.                *)
(***************************************************************************)
RECURSIVE observe(_, _, _)
\* ps[1].value, ps[2].value, ... are read in this order; ret lists, for each
\* read, the exception it raised ("" for none) and the value it returned
observe(h, ps, out) ==
  IF ps = << >> THEN Return(h, out)
  ELSE LET take(r) ==
             observe([r EXCEPT !.err = ""], Tail(ps),
                     Append(out, << r.err, IF Ok(r) THEN r.ret ELSE None >>))
       IN take(value_getter(h, Head(ps)))

RECURSIVE points_to(_, _, _)
\* q is a pointer Param that points to p directly or through a chain of
\* pointer Params
points_to(h, q, p) ==
  /\ q \in Params
  /\ is_pointer(h, q)
  /\ \/ p \in child_values(h.children, q)
     \/ \E c \in child_values(h.children, q) : points_to(h, c, p)

\* C3: when a call of a forward method on an inactive module has ended, by a
\* normal return or by an exception raised in fill_params, in the keyword
\* injection or in the method body, the module and every node below it are
\* inactive and every dynamic and pointer Param below it has _value = None.
C3_ForwardLeavesNothing ==
  (last.op = "forward" /\ last.arg = "inactive") =>
    \A n \in below(children, last.self) :
      /\ ~active[n]
      /\ (n \in Params /\ (is_dynamic(Heap, n) \/ is_pointer(Heap, n))) =>
           value[n] = None

\* C4: in every reachable state (active or inactive), for with
\* OverrideParam(a, 0): inside, a.value reads 0 and every pointer Param that
\* points to a reads what it computes from 0 with no cached resolution in the
\* way; after exit a.value and these pointers read what they read before enter;
\* and the state tag of a is the same before, inside and after.
C4_OverrideIsTemporary ==
  LET p == "a"
      v == 0
      ps == SelectSeq(ParamOrder, LAMBDA q : q = p \/ points_to(Heap, q, p))
      before == observe(Heap, ps, << >>)
      inside == override_enter(NoRet(before), p, v)
      uncached == [inside EXCEPT !.value =
                     [q \in Params |-> IF q # p /\ q \in Range(ps) THEN None
                                       ELSE inside.value[q]]]
      seen == observe(NoRet(inside), ps, << >>)
      left == override_exit(NoRet(seen), inside.ret)
      after == observe(left, ps, << >>)
  IN /\ seen.ret[1] = << "", Some(v) >>
     /\ seen.ret = observe(NoRet(uncached), ps, << >>).ret
     /\ after.ret = before.ret
     /\ inside.type[p] = type[p] /\ left.type[p] = type[p]

\* C5: when with ActiveContext(m, active=False) is entered on an active module
\* m, then right after enter m and everything below it are inactive and every
\* dynamic Param of m has _value = None; and when the block is left, whatever
\* happened inside and whatever valid_context is, m is active and every
\* dynamic Param of m reads what it read immediately before enter (the values
\* __enter__ read into outer_params).
C5_DeactivationIsTemporary ==
  [][ /\ \A m \in Modules :
           ( /\ active[m]
             /\ last'.op = "enter_active" /\ last'.err = ""
             /\ stack' = Append(stack, stack'[Len(stack')])
             /\ stack'[Len(stack')].obj = m
             /\ ~stack'[Len(stack')].flag ) =>
             /\ \A n \in below(children', m) : ~active'[n]
             /\ \A i \in 1 .. Len(dynamic_params'[m]) :
                  value'[dynamic_params'[m][i]] = None
      /\ ( /\ last'.op = "exit_active"
           /\ stack # << >>
           /\ Top.kind = "ActiveContext" /\ Top.outer /\ ~Top.flag ) =>
           /\ last'.err = ""
           /\ active'[Top.obj]
           /\ read_all(active_exit(Heap, Top), dynamic_params'[Top.obj]).ret
                = Top.saved ]_vars

\* the position of x in the sequence s (x is in s)
index_of(s, x) == CHOOSE i \in 1 .. Len(s) : s[i] = x

\* C11: n.topological_ordering() is a topological ordering of the graph below
\* n: for every link parent -> child between two nodes of the returned tuple,
\* the parent stands before the child.
C11_ParentsBeforeChildren ==
  \A n \in AllNodes :
    LET t == topological_ordering(children, n)
    IN \A x \in Range(t), y \in Range(t) :
         y \in child_values(children, x) => index_of(t, x) < index_of(t, y)

(***************************************************************************)
(* module.py: flat array bundles.  An array is                             *)
(*   [batch |-> the leading dimensions, data |-> the last dimension]       *)
(* where the entries of data name the positions 1 .. L of the array the    *)
(* caller handed in (every batch row is cut the same way).  The value a    *)
(* Param receives is [batch, shape, data, valid]: the slice data, viewed   *)
(* with shape batch + shape; valid tells that from_valid with bounds was   *)
(* applied to it.                                                          *)
(***************************************************************************)
\* Longest last dimension of the arrays handed in.
MaxLen == 4

Array(batch, L) == [batch |-> batch, data |-> [i \in 1 .. L |-> i]]

RECURSIVE prod(_)
\* math.prod
prod(dims) == IF dims = << >> THEN 1 ELSE Head(dims) * prod(Tail(dims))

Max(x, y) == IF x > y THEN x ELSE y
Min(x, y) == IF x < y THEN x ELSE y

\* data[pos : pos + size] with 0-based pos, clipped as Python slices are
slice(data, pos, size) ==
  SubSeq(data, Min(pos, Len(data)) + 1, Min(pos + size, Len(data)))

\* backend.view(array of shape batch + (n,), shape) raises unless the number
\* of elements is kept
view_ok(batch, n, shp) == prod(batch) * n = prod(shp)

\* Module.from_valid for an array; ret is the converted array
from_valid_array(h, m, arr) ==
  LET dyn == h.dynamic_params[m]
      RECURSIVE each(_, _, _, _)
      each(g, i, pos, out) ==
        IF i > Len(dyn)
        THEN IF Len(dyn) = 0 THEN Raise(g, "ValueError")  \* concatenate([])
             ELSE Return(g, [batch |-> arr.batch, data |-> out])
        ELSE LET p == dyn[i]
             IN IF g.shape[p] = None THEN Raise(g, "TypeError")  \* prod(None)
                ELSE LET shp == g.shape[p][1]
                         size == Max(1, prod(shp))
                         part == slice(arr.data, pos, size)
                     IN IF ~view_ok(arr.batch, Len(part), arr.batch \o shp)
                        THEN Raise(g, "ValueError")
                        ELSE IF is_pointer(g, p) THEN Raise(g, "ParamTypeError")
                        ELSE each(g, i + 1, pos + size, out \o part)
  IN each(h, 1, 0, << >>)

\* Module._fill_values for an array (local=False, dynamic_values=False);
\* tr: the array went through from_valid
fill_array(h, m, arr, tr) ==
  LET dyn == h.dynamic_params[m]
      L == Len(arr.data)
      RECURSIVE each(_, _, _)
      each(g, i, pos) ==
        IF i > Len(dyn)
        THEN IF pos # L THEN Raise(g, "FillDynamicParamsArrayError") ELSE g
        ELSE LET p == dyn[i]
             IN IF g.shape[p] = None THEN Raise(g, "ParamConfigurationError")
                ELSE LET shp == g.shape[p][1]
                         size == Max(1, prod(shp))
                         part == slice(arr.data, pos, size)
                     IN IF ~view_ok(arr.batch, Len(part), arr.batch \o shp)
                        THEN Raise(g, "FillDynamicParamsArrayError")
                        ELSE each([g EXCEPT !.value[p] =
                                     Some([batch |-> arr.batch, shape |-> shp,
                                           data |-> part,
                                           valid |-> tr /\ g.valid[p] # NoBounds])],
                                  i + 1, pos + size)
  IN IF L = 0 THEN h ELSE each(h, 1, 0)

\* Module.fill_params for an array
fill_params_array(h, m, arr) ==
  IF ~h.active[m] THEN Raise(h, "ActiveStateError")
  ELSE IF h.valid_context[m]
  THEN LET fill(r) == IF ~Ok(r) THEN r
                       ELSE fill_array(Return(r, << >>), m, r.ret, TRUE)
       IN fill(from_valid_array(h, m, arr))
  ELSE fill_array(h, m, arr, FALSE)

\* m.fill_params(array)
FillArray(m, arr) ==
  /\ Done("fill_params", m, arr, fill_params_array(Heap, m, arr))
  /\ UNCHANGED stack

(***************************************************************************)
(* SpecArr: the graph Built with a = Param("a", shape=sa) and              *)
(* c = Param("c", shape=sc, cyclic=True, valid=(0, 2)); M is activated,    *)
(* put in a ValidContext and filled with flat arrays.                      *)
(***************************************************************************)
Shapes == {<< >>, << 2 >>, << 0 >>, << 1, 2 >>}
Arrays == {Array(b, L) : b \in {<< >>, << 2 >>}, L \in 0 .. MaxLen}

InitArr ==
  \E sa \in Shapes, sc \in Shapes :
    Start([Built EXCEPT !.shape["a"] = Some(sa), !.shape["c"] = Some(sc)])

NextArr ==
  \/ EnterActive("M", TRUE)
  \/ ExitActive
  \/ EnterValid("M")
  \/ ExitValid
  \/ \E arr \in Arrays : FillArray("M", arr)

SpecArr == InitArr /\ [][NextArr]_vars

RECURSIVE sizes_before(_, _, _)
\* the sum of max(1, prod(shape)) over the first i - 1 Params of dyn
sizes_before(h, dyn, i) ==
  IF i <= 1 THEN 0
  ELSE sizes_before(h, dyn, i - 1) + Max(1, prod(h.shape[dyn[i - 1]][1]))

FillErrors ==
  { "FillDynamicParamsError", "FillDynamicParamsArrayError",
    "FillDynamicParamsSequenceError", "FillDynamicParamsMappingError" }

\* C12: m.fill_params(array) on an active module m, the array having last
\* dimension L: the call succeeds exactly when L is the sum over dynamic_params
\* of max(1, prod(shape)); it then leaves in the i-th dynamic Param the slice
\* that starts at the sum of the sizes before it, viewed with the batch
\* dimensions in front of the Param's shape; for every other L it raises a fill
\* error.
C12_ArrayFillBySizes ==
  (last.op = "fill_params" /\ active[last.self]) =>
    LET m == last.self
        arr == last.arg
        L == Len(arr.data)
        dyn == dynamic_params[m]
        total == sizes_before(Heap, dyn, Len(dyn) + 1)
    IN /\ (last.err = "") <=> (L = total)
       /\ (last.err = "") =>
            \A i \in 1 .. Len(dyn) :
              LET start == sizes_before(Heap, dyn, i)
                  size == Max(1, prod(shape[dyn[i]][1]))
              IN /\ value[dyn[i]] # None
                 /\ value[dyn[i]][1].data = [j \in 1 .. size |-> start + j]
                 /\ value[dyn[i]][1].batch = arr.batch
                 /\ value[dyn[i]][1].shape = shape[dyn[i]][1]
       /\ (L # total) => last.err \in FillErrors

(***************************************************************************)
(* module.py: the fill protocol for nested bundles.  A bundle is           *)
(*   << v >>  a plain number (None is << >>),                              *)
(*   List(xs)      a list or tuple of bundles,                             *)
(*   Dict(ks, vs)  a dict: ks[i] is the i-th key in iteration order and    *)
(*                 vs[i] its value.                                        *)
(***************************************************************************)
List(xs) == << "list", xs >>
Dict(ks, vs) == << "dict", ks, vs >>
\* isinstance(params, Sequence), isinstance(params, Mapping)
IsList(e) == Len(e) = 2
IsDict(e) == Len(e) = 3

\* self.local_dynamic_params.values() if local else self.dynamic_params
params_of(h, self, local) ==
  IF local
  THEN [i \in 1 .. Len(h.local_dynamic_params[self]) |->
          h.local_dynamic_params[self][i].node]
  ELSE h.dynamic_params[self]

\* c.dynamic for a child c; a plain Node has no such attribute
has_dynamic(c) == c \in Params \cup Modules
node_dynamic(h, c) ==
  IF c \in Params THEN is_dynamic_param(h, c)
  ELSE Len(h.local_dynamic_params[c]) > 0

\* FillDynamicParamsMappingError(name, children, dynamic_modules,
\* missing_key=key): ret holds what the message names
mapping_error(h, self, key) ==
  [h EXCEPT !.err = "FillDynamicParamsMappingError",
            !.ret = [key |-> key, name |-> name(self),
                     children |-> {c \in child_values(h.children, self) :
                                     has_dynamic(c) /\ node_dynamic(h, c)}]]

\* A faulty _fill_values: like zip, it stops at the shorter of the list and
\* the dynamic Params instead of comparing their lengths.
fill_bundle_zip(h, self, e, local) ==
  IF ~IsList(e) THEN Raise(h, "TypeError")
  ELSE LET RECURSIVE assign(_, _, _)
           assign(g, dyn, i) ==
             IF i > Len(dyn) \/ i > Len(e[2]) THEN g
             ELSE assign([g EXCEPT !.value[dyn[i]] = e[2][i]], dyn, i + 1)
       IN assign(h, params_of(h, self, local), 1)

RECURSIVE fill_bundle(_, _, _, _)
RECURSIVE fill_dict(_, _, _, _)

\* one iteration of the loop of Module._fill_dict (dynamic_values=False)
fill_key(h, self, node, key, v) ==
  IF key \notin child_keys(h.children, node) THEN mapping_error(h, self, key)
  ELSE LET branch(c) ==
             IF is_dynamic_param(h, c) THEN [h EXCEPT !.value[c] = v]
             ELSE IF c \in Modules /\ node_dynamic(h, c) /\ ~IsDict(v)
             THEN fill_bundle(h, c, v, TRUE)
             ELSE IF c \in Params THEN mapping_error(h, self, key)
             ELSE IF ~has_dynamic(c) THEN Raise(h, "AttributeError")
             ELSE IF node_dynamic(h, c) THEN fill_dict(h, self, c, v)
             ELSE mapping_error(h, self, key)
       IN branch(h.children[node][child_at(h.children, node, key)].node)

\* Module._fill_dict(node, params)
fill_dict(h, self, node, e) ==
  LET RECURSIVE each(_, _)
      each(g, i) ==
        IF i > Len(e[2]) \/ ~Ok(g) THEN g
        ELSE each(fill_key(g, self, node, e[2][i], e[3][i]), i + 1)
  IN each(h, 1)

\* Module._fill_values(params, local) for a list, a dict or a number
fill_bundle(h, self, e, local) ==
  IF IsList(e)
  THEN LET RECURSIVE assign(_, _, _)
           assign(g, dyn, i) ==
             IF i > Len(dyn) THEN g
             ELSE assign([g EXCEPT !.value[dyn[i]] = e[2][i]], dyn, i + 1)
           RECURSIVE modules(_, _, _)
           modules(g, mods, i) ==
             IF i > Len(mods) \/ ~Ok(g) THEN g
             ELSE modules(fill_bundle(g, mods[i], e[2][i], TRUE), mods, i + 1)
           by_length(dyn) ==
             IF Len(e[2]) = 0 THEN h
             ELSE IF Len(e[2]) = Len(dyn) THEN assign(h, dyn, 1)
             ELSE IF h.dynamic_modules[self] = None THEN Raise(h, "AttributeError")
             ELSE IF Len(e[2]) = Len(h.dynamic_modules[self][1])
             THEN modules(h, h.dynamic_modules[self][1], 1)
             ELSE Raise(h, "FillDynamicParamsSequenceError")
       IN by_length(params_of(h, self, local))
  ELSE IF IsDict(e) THEN fill_dict(h, self, self, e)
  ELSE Raise(h, "TypeError")

\* Param.from_valid(value) for a dynamic Param: with bounds set the value
\* enters arithmetic, which a list, a dict or None does not support
param_from_valid_any(h, p, v) ==
  IF h.valid[p] # NoBounds /\ Len(v) # 1 THEN Raise(h, "TypeError")
  ELSE param_from_valid(h, p, v)

RECURSIVE from_valid_bundle(_, _, _, _)
\* Module.from_valid(valid_params, local); ret is params
from_valid_bundle(h, self, e, local) ==
  IF IsList(e)
  THEN LET RECURSIVE each(_, _, _)
           each(dyn, i, out) ==
             IF i > Len(dyn) THEN Return(h, List(out))
             ELSE LET take(r) == IF ~Ok(r) THEN r
                                 ELSE each(dyn, i + 1, Append(out, r.ret))
                  IN take(param_from_valid_any(h, dyn[i], e[2][i]))
           RECURSIVE modules(_, _, _)
           modules(mods, i, out) ==
             IF i > Len(mods) THEN Return(h, List(out))
             ELSE LET take(r) == IF ~Ok(r) THEN r
                                 ELSE modules(mods, i + 1, Append(out, r.ret))
                  IN take(from_valid_bundle(h, mods[i], e[2][i], TRUE))
           by_length(dyn) ==
             IF Len(e[2]) = Len(dyn) THEN each(dyn, 1, << >>)
             ELSE IF h.dynamic_modules[self] = None THEN Raise(h, "AttributeError")
             ELSE IF Len(e[2]) = Len(h.dynamic_modules[self][1])
             THEN modules(h.dynamic_modules[self][1], 1, << >>)
             ELSE Raise(h, "FillDynamicParamsSequenceError")
       IN by_length(params_of(h, self, local))
  ELSE IF IsDict(e)
  THEN LET convert(key, v) ==
             IF key \notin child_keys(h.children, self)
             THEN mapping_error(h, self, key)
             ELSE LET branch(c) ==
                        IF c \in Modules /\ node_dynamic(h, c)
                        THEN from_valid_bundle(h, c, v, TRUE)
                        ELSE IF is_dynamic_param(h, c)
                        THEN param_from_valid_any(h, c, v)
                        ELSE mapping_error(h, self, key)
                  IN branch(h.children[self][child_at(h.children, self, key)].node)
           RECURSIVE each(_, _)
           each(i, out) ==
             IF i > Len(e[2]) THEN Return(h, Dict(e[2], out))
             ELSE LET take(r) == IF ~Ok(r) THEN r
                                 ELSE each(i + 1, Append(out, r.ret))
                  IN take(convert(e[2][i], e[3][i]))
       IN each(1, << >>)
  ELSE Raise(h, "TypeError")

\* A faulty fill_params: the Module is filled whether it is active or not.
fill_params_unchecked(h, m, e) == fill_bundle(h, m, e, FALSE)

\* A fill_params that checks for dynamic Params left without a value, as
\* FillDynamicParamsMappingError(missing_param=...) would report them.
fill_params_checked(h, m, e) ==
  IF ~h.active[m] THEN Raise(h, "ActiveStateError")
  ELSE LET check(r) ==
             IF Ok(r) /\ \E i \in 1 .. Len(r.dynamic_params[m]) :
                           r.value[r.dynamic_params[m][i]] = None
             THEN Raise(r, "FillDynamicParamsMappingError") ELSE r
       IN check(fill_bundle(h, m, e, FALSE))

\* Module.fill_params(params) for a list, a dict or a number
fill_params_bundle(h, m, e) ==
  IF ~h.active[m] THEN Raise(h, "ActiveStateError")
  ELSE IF h.valid_context[m]
  THEN LET fill(r) == IF ~Ok(r) THEN r
                       ELSE fill_bundle(Return(r, << >>), m, r.ret, FALSE)
       IN fill(from_valid_bundle(h, m, e, FALSE))
  ELSE fill_bundle(h, m, e, FALSE)

\* m.fill_params(e); the call is recorded with its bundle and, when it
\* raised, with what the exception names
FillBundle(m, e) ==
  LET filled(r) ==
        Done("fill_params", m, [params |-> e, info |-> r.ret], r)
  IN /\ filled(fill_params_bundle(Heap, m, e))
     /\ UNCHANGED stack

\* Module.clear_params called by the user
ClearParams(m) ==
  /\ Done("clear_params", m, [params |-> << >>, info |-> << >>], clear_params(Heap, m))
  /\ UNCHANGED stack

\* Module.fill_dynamic_values(params) for a list of plain numbers:
\* _fill_values(params, dynamic_values=True)
fill_dynamic_values(h, m, e) ==
  IF h.active[m] THEN Raise(h, "ActiveStateError")
  ELSE LET RECURSIVE assign(_, _, _, _)
           assign(g, dyn, xs, i) ==
             IF i > Len(dyn) \/ ~Ok(g) THEN g
             ELSE assign(dynamic_value_setter(g, dyn[i], ArgOf(xs[i])), dyn, xs, i + 1)
           by_length(g, xs) ==
             IF Len(xs) = 0 THEN g
             ELSE IF Len(xs) = Len(g.dynamic_params[m])
             THEN assign(g, g.dynamic_params[m], xs, 1)
             ELSE IF g.dynamic_modules[m] = None THEN Raise(g, "AttributeError")
             ELSE IF Len(xs) = Len(g.dynamic_modules[m][1])
             THEN Raise(g, "TypeError")  \* module._fill_values(number, local=True)
             ELSE Raise(g, "FillDynamicParamsSequenceError")
           fill(r) == IF ~Ok(r) THEN r ELSE by_length(Return(r, << >>), r.ret[2])
       IN fill(IF h.valid_context[m] THEN from_valid_bundle(h, m, e, FALSE)
               ELSE Return(h, e))

\* m.fill_dynamic_values(e)
FillDynamicValues(m, e) ==
  /\ Done("fill_dynamic_values", m, [params |-> e, info |-> << >>],
          NoRet(fill_dynamic_values(Heap, m, e)))
  /\ UNCHANGED stack

(***************************************************************************)
(* SpecFill: on the graph Built, M is activated and deactivated, with and  *)
(* without a ValidContext, and is filled with lists, lists grouped by      *)
(* module, dicts and plain numbers; between the contexts b is reassigned,  *)
(* so that M has two or three dynamic Params below its two dynamic Modules.*)
(***************************************************************************)
\* the lists of plain numbers of every length up to MaxLen
FlatLists ==
  {List([i \in 1 .. n |-> Some((i % MaxVal) + 1)]) : n \in 0 .. MaxLen}

\* lists with one entry per dynamic Module
ModuleLists ==
  { List(<< List(<< Some(1), Some(2) >>), List(<< Some(2) >>) >>),
    List(<< List(<< Some(1) >>), List(<< Some(2) >>), List(<< >>) >>),
    List(<< List(<< Some(1), Some(2) >>), Some(1) >>) }

Dicts ==
  { Dict(<< >>, << >>),
    Dict(<< "a", "S" >>, << Some(1), Dict(<< "c" >>, << Some(2) >>) >>),
    Dict(<< "a", "b", "S" >>, << Some(1), Some(2), List(<< Some(2) >>) >>),
    Dict(<< "S" >>, << Dict(<< "c" >>, << Some(1) >>) >>),
    Dict(<< "S" >>, << Dict(<< "q" >>, << Some(1) >>) >>),
    Dict(<< "a", "q" >>, << Some(1), Some(1) >>),
    Dict(<< "S", "q" >>, << Some(1), Some(1) >>),
    Dict(<< "c" >>, << Some(1) >>),
    Dict(<< "d" >>, << Some(1) >>) }

FillBundles == FlatLists \cup ModuleLists \cup Dicts \cup {Some(1)}

InitFill == Start(Built)

NextFill ==
  \/ EnterActive("M", TRUE)
  \/ ExitActive
  \/ EnterValid("M")
  \/ ExitValid
  \/ \E e \in FillBundles : FillBundle("M", e)
  \/ ClearParams("M")
  \/ \E e \in FlatLists : FillDynamicValues("M", e)
  \/ \E arg \in {ArgNone, ArgArray(1), ArgParam("a")} :
       stack = << >> /\ SetValue("b", arg)

SpecFill == InitFill /\ [][NextFill]_vars

(***************************************************************************)
(* Reading vocabulary of the claims about fill_params.                     *)
(***************************************************************************)
\* the step is a call m.fill_params(e) on an active Module m
FillStep(m, e) ==
  /\ last'.op = "fill_params"
  /\ last'.self = m
  /\ last'.arg.params = e
  /\ active[m]

\* what fill_params stores for the entry v handed to the Param p: the entry,
\* or under a ValidContext the entry mapped back by p.from_valid
stored_for(m, p, v) ==
  IF valid_context[m] THEN param_from_valid_any(Heap, p, v).ret ELSE v

\* the call has stored nothing
NothingFilled == value' = value

dynamic_children(h, node) ==
  {c \in child_values(h.children, node) :
     \/ is_dynamic_param(h, c)
     \/ c \in Modules /\ h.dynamic_params[c] # << >>}

RECURSIVE first_bad(_, _, _)
\* the first key of the mapping e, looked up in node, that does not name a
\* member of dynamic_children, as << key, node >>; << >> when there is none
first_bad(h, node, e) ==
  LET RECURSIVE each(_)
      each(i) ==
        IF i > Len(e[2]) THEN << >>
        ELSE IF e[2][i] \notin child_keys(h.children, node) THEN << e[2][i], node >>
        ELSE LET c == h.children[node][child_at(h.children, node, e[2][i])].node
                 inner == IF c \in Modules /\ IsDict(e[3][i])
                          THEN first_bad(h, c, e[3][i]) ELSE << >>
             IN IF c \notin dynamic_children(h, node) THEN << e[2][i], node >>
                ELSE IF inner # << >> THEN inner
                ELSE each(i + 1)
  IN each(1)

\* C14 as stated: when some key of a mapping handed to fill_params, at any
\* nesting level, does not name a dynamic Param child or a child carrying
\* dynamic Params of the node it is looked up in, FillDynamicParamsMappingError
\* is raised and names that key and the dynamic children of that node.
C14_MappingErrorNamesNode ==
  (last.op = "fill_params" /\ active[last.self] /\ IsDict(last.arg.params)) =>
    LET bad == first_bad(Heap, last.self, last.arg.params)
    IN bad # << >> =>
         /\ last.err = "FillDynamicParamsMappingError"
         /\ last.arg.info.key = bad[1]
         /\ last.arg.info.children = dynamic_children(Heap, bad[2])

RECURSIVE named_params(_, _, _)
\* the Params that the accepted mapping e, looked up in node, names: by a
\* key of their own, or as the direct dynamic Params of a Module whose entry
\* is a non-empty list
named_params(h, node, e) ==
  UNION { LET c == h.children[node][child_at(h.children, node, e[2][i])].node
          IN IF c \in Params THEN {c}
             ELSE IF IsDict(e[3][i]) THEN named_params(h, c, e[3][i])
             ELSE IF e[3][i][2] = << >> THEN {}
             ELSE Range(params_of(h, c, TRUE)) : i \in 1 .. Len(e[2]) }

RECURSIVE entries_fit(_, _, _)
\* every entry of the accepted mapping e has the form its child takes: a
\* plain number for a Param; for a Module a mapping, or a list that is empty
\* or holds one plain number per direct dynamic Param
entries_fit(h, node, e) ==
  \A i \in 1 .. Len(e[2]) :
    LET c == h.children[node][child_at(h.children, node, e[2][i])].node
        v == e[3][i]
    IN IF c \in Params THEN Len(v) = 1
       ELSE IF IsDict(v) THEN first_bad(h, c, v) = << >> /\ entries_fit(h, c, v)
       ELSE /\ IsList(v)
            /\ Len(v[2]) \in {0, Len(params_of(h, c, TRUE))}
            /\ \A j \in 1 .. Len(v[2]) : Len(v[2][j]) = 1

\* C15 as stated: fill_params with a mapping raises a fill error when, after
\* all keys have been consumed, a dynamic Param below the Module is left
\* without a filled value.
C15_UnfilledParamFails ==
  [][\A m \in Modules, e \in Dicts :
       (FillStep(m, e) /\ \E p \in Range(dynamic_params[m]) : value'[p] = None)
         => last'.err \in FillErrors]_vars

\* C15, amended: fill_params with a mapping does not look for dynamic Params
\* that the mapping leaves out.  A mapping whose keys are all accepted and
\* whose entries fit is filled without error, and every dynamic Param that it
\* does not name keeps the value it had, empty or not.
C15_OmittedParamsAreNotChecked ==
  [][\A m \in Modules, e \in Dicts :
       (FillStep(m, e) /\ first_bad(Heap, m, e) = << >> /\ entries_fit(Heap, m, e))
         => /\ last'.err = ""
            /\ \A p \in Range(dynamic_params[m]) \ named_params(Heap, m, e) :
                 value'[p] = value[p]
            /\ \A p \in named_params(Heap, m, e) : value'[p] # None]_vars

\* the mapping {"S": {"c": 1}} has been filled without error and a, which it
\* leaves out, is still empty
C15_Witness ==
  /\ Called("fill_params", "")
  /\ last.arg.params = Dict(<< "S" >>, << Dict(<< "c" >>, << Some(1) >>) >>)
  /\ "a" \in Range(dynamic_params["M"])
  /\ value["a"] = None /\ value["c"] = Some(1)

(***************************************************************************)
(* decorators.py: a forward call with a bundle of any form.                *)
(***************************************************************************)
\* with ActiveContext(self): self.fill_params(params), up to the keyword
\* injection; args is << >> (no bundle passed) or << bundle >>
forward_enter_fill(h, m, args) ==
  LET fill(r) == IF args = << >> \/ ~Ok(r) THEN r
                 ELSE fill_params_bundle(r, m, args[1])
  IN fill(active_enter(h, m, TRUE))

\* a forward call has ended in the wrapper or its body starts; the call is
\* recorded with the bundle it was given
DoneForward(op, m, args, h) ==
  /\ Commit(h)
  /\ last' = [op |-> op, self |-> m, arg |-> "inactive", err |-> h.err,
              params |-> args]

\* m.f(bundle) or m.f() on an inactive Module m for the decorated method f,
\* up to the point where the method body starts.  When the wrapper raises
\* before the body, the call is over in this step.
ForwardBundle(m, args) ==
  /\ Len(stack) < MaxDepth
  /\ ~active[m]
  /\ LET f == Frame("ActiveContext", m, TRUE, FALSE, << >>)
         \* x: the heap after ActiveContext.__exit__
         reraise(e, x) == IF Ok(x) THEN Raise(x, e) ELSE x
         \* k: the heap after fill_params and fill_kwargs
         body(k) ==
           IF Ok(k)
           THEN /\ DoneForward("call", m, args, NoRet(k))
                /\ Push(Frame("forward", m, TRUE, FALSE, << >>))
           ELSE /\ DoneForward("forward", m, args,
                               NoRet(reraise(k.err, active_exit([k EXCEPT !.err = ""], f))))
                /\ UNCHANGED stack
         kwargs(p) == body(IF Ok(p) THEN fill_kwargs(NoRet(p), m) ELSE p)
     IN kwargs(forward_enter_fill(Heap, m, args))

(***************************************************************************)
(* SpecFwd: on the graph Built, the forward method f(self, a=None, c=None) *)
(* is called on M and on S, with and without a bundle, from outside and    *)
(* from the body of another call, and returns or raises; M is also         *)
(* activated and filled by hand, with and without a ValidContext.          *)
(***************************************************************************)
FwdBundles ==
  { List(<< >>), List(<< Some(1) >>), List(<< Some(1), Some(2) >>),
    Dict(<< >>, << >>),
    Dict(<< "a" >>, << Some(1) >>),
    Dict(<< "c" >>, << Some(1) >>),
    Dict(<< "S" >>, << Dict(<< "c" >>, << Some(1) >>) >>),
    Dict(<< "a", "S" >>, << Some(1), Dict(<< "c" >>, << Some(2) >>) >>),
    Dict(<< "S" >>, << Dict(<< "q" >>, << Some(1) >>) >>) }

FwdArgs == {<< >>} \cup {<< e >> : e \in FwdBundles}
Keywords == {<< >>, << "a", 0 >>, << "c", 0 >>}

InitFwd == Start(Built)

NextFwd ==
  \/ EnterActive("M", TRUE)
  \/ ExitActive
  \/ EnterValid("M")
  \/ ExitValid
  \/ \E e \in FwdBundles : FillBundle("M", e)
  \/ \E m \in Modules, args \in FwdArgs : ForwardBundle(m, args)
  \/ \E m \in Modules, kw \in Keywords : active[m] /\ ForwardCall(m, << >>, kw)
  \/ \E exc \in {"", "BodyError"} : ForwardReturn(exc)

SpecFwd == InitFwd /\ [][NextFwd]_vars

\* the keyword key of the decorated method names the Param child c of m
declares(m, key, c) ==
  /\ key \in Range(method_params)
  /\ key \in child_keys(children, m)
  /\ c = children[m][child_at(children, m, key)].node
  /\ c \in Params

\* c has no value and no cached default, and the bundle of the call (none, an
\* empty list, or an accepted mapping that does not name c) gives it none
left_empty(m, args, c) ==
  /\ type[c] = "dynamic"
  /\ value[c] = None
  /\ \/ args = << >>
     \/ args = << List(<< >>) >>
     \/ /\ args # << >>
        /\ IsDict(args[1])
        /\ first_bad(Heap, m, args[1]) = << >>
        /\ entries_fit(Heap, m, args[1])
        /\ c \notin named_params(Heap, m, args[1])

\* the step was taken by ForwardBundle / by ForwardCall
ByForwardBundle == last'.op \in {"forward", "call"} /\ "params" \in DOMAIN last'
ByForwardCall == last'.op \in {"forward", "call"} /\ "params" \notin DOMAIN last'

\* C16: a forward call in which a keyword declared by the method names a
\* Param child whose value is still empty after filling (no bundle, an empty
\* bundle, or a mapping that omits it; on an active Module: no override for
\* it) raises FillDynamicParamsError, and the method body is not run.  (Under
\* a ValidContext the empty list is rejected before that, with the subclass
\* FillDynamicParamsSequenceError.)
C16_EmptyKeywordFails ==
  [][\A m \in Modules, key \in Range(method_params), c \in Params :
       /\ \A args \in FwdArgs :
            ( /\ ByForwardBundle /\ ForwardBundle(m, args)
              /\ declares(m, key, c) /\ left_empty(m, args, c) )
              => /\ last'.op = "forward"
                 /\ last'.err = IF valid_context[m] /\ args = << List(<< >>) >>
                                THEN "FillDynamicParamsSequenceError"
                                ELSE "FillDynamicParamsError"
                 /\ stack' = stack
       /\ \A kw \in Keywords :
            ( /\ ByForwardCall /\ active[m] /\ ForwardCall(m, << >>, kw)
              /\ declares(m, key, c) /\ left_empty(m, << >>, c)
              /\ (kw = << >> \/ kw[1] # key) )
              => /\ last'.op = "forward"
                 /\ last'.err = "FillDynamicParamsError"
                 /\ stack' = stack]_vars

\* M.f({"S": {"c": 1}}) on the inactive M has raised FillDynamicParamsError:
\* the mapping leaves out a, which f declares
C16_Witness ==
  /\ Called("forward", "FillDynamicParamsError")
  /\ "params" \in DOMAIN last
  /\ last.self = "M"
  /\ last.params = << Dict(<< "S" >>, << Dict(<< "c" >>, << Some(1) >>) >>) >>
  /\ stack = << >>

\* forward.wrapped on an active Module, from the call to its end, for a method
\* body that touches nothing and returns (exc = "") or raises exc:
\*   kw: << >> or << key, v >>
forward_active_call(h, m, kw, exc) ==
  LET over == /\ kw # << >>
              /\ kw[1] \in child_keys(h.children, m)
              /\ h.children[m][child_at(h.children, m, kw[1])].node \in Params
      c == h.children[m][child_at(h.children, m, kw[1])].node
      \* old: the old_values of the OverrideParam; k: the heap after fill_kwargs
      body(old, k) == IF Ok(k) THEN Raise(override_exit(NoRet(k), old), exc)
                      ELSE override_exit(k, old)
      kwargs(e) == body(e.ret, fill_kwargs(NoRet(e), m))
  IN kwargs(IF over THEN override_enter(NoRet(h), c, kw[2]) ELSE NoRet(h))

\* C17: a forward call on an active Module m, with or without a keyword that
\* names a Param child, ends by the return or the exception of the body or
\* by FillDynamicParamsError; afterwards m is still active, no transient
\* value of a dynamic Param has been filled or cleared, and every Param
\* reads the value it read before the call.
C17_ActiveCallChangesNothing ==
  \A m \in Modules, kw \in Keywords, exc \in {"", "BodyError"} :
    active[m] =>
      LET before == observe(Heap, ParamOrder, << >>)
          r == forward_active_call(before, m, kw, exc)
          after == observe([r EXCEPT !.err = "", !.ret = << >>], ParamOrder, << >>)
      IN /\ r.err \in {exc, "FillDynamicParamsError"}
         /\ r.active[m]
         /\ \A i \in 1 .. Len(dynamic_params[m]) :
              r.value[dynamic_params[m][i]] = value[dynamic_params[m][i]]
         /\ after.ret = before.ret

\* what a Param is apart from its transient value and its active flag: its
\* state tag, cached default, shape, bounds, resolver and links
persistent == << type, dynamic_value, shape, valid, cyclic, pointer_func,
                 children, parents >>

C19_WrongActivityIsRejected ==
  [][ /\ (last'.op \in {"fill_params", "clear_params"} /\ ~active[last'.self]) =>
           /\ last'.err = "ActiveStateError"
           /\ UNCHANGED << value, dynamic_value >>
      /\ (last'.op = "fill_dynamic_values" /\ active[last'.self]) =>
           /\ last'.err = "ActiveStateError"
           /\ UNCHANGED << value, dynamic_value >> ]_vars

\* fill_dynamic_values has just been rejected on the active M, whose Param a
\* holds a filled value and whose Param b holds a cached default
C19_Witness ==
  /\ Called("fill_dynamic_values", "ActiveStateError")
  /\ last.arg.params = List(<< Some(2), Some(1), Some(2) >>)
  /\ active["M"]
  /\ value["a"] = Some(1)
  /\ dynamic_value["b"] = Some(1)

\* the four states of a Param, each with what it holds
state_dynamic(p) ==
  type[p] = "dynamic" /\ dynamic_value[p] = None /\ pointer_func[p] = FuncNone
state_dynamic_value(p) ==
  type[p] = "dynamic value" /\ dynamic_value[p] # None /\ pointer_func[p] = FuncNone
state_static(p) ==
  type[p] = "static" /\ value[p] # None /\ dynamic_value[p] = None
state_pointer(p) ==
  type[p] = "pointer" /\ pointer_func[p] # FuncNone /\ dynamic_value[p] = None
in_one_state(p) ==
  state_dynamic(p) \/ state_dynamic_value(p) \/ state_static(p) \/ state_pointer(p)

\* C20: an assignment p.value = x on an inactive Param that returns without
\* raising leaves p in the state that x determines: for None dynamic, or
\* dynamic with the old value as cached default when p was static; for a
\* Param or a callable pointer, with no shape of its own; for any other value
\* static, holding it.  Afterwards p is in exactly one of the four states.
C20_AssignmentDeterminesState ==
  [][\A p \in PParams, arg \in Args :
       (last'.op = "value" /\ last'.err = "" /\ ~active[p] /\ SetValue(p, arg)) =>
         /\ arg.k = "none" =>
              IF type[p] = "static"
              THEN type'[p] = "dynamic value" /\ dynamic_value'[p] = value[p]
              ELSE type'[p] = "dynamic"
         /\ arg.k \in {"param", "callable"} =>
              type'[p] = "pointer" /\ shape'[p] = None
         /\ arg.k = "array" =>
              type'[p] = "static" /\ value'[p] = Some(arg.n)
         /\ in_one_state(p)']_vars

(***************************************************************************)
(* Claims about to_dynamic / to_static (SpecParam).                        *)
(***************************************************************************)
\* p is in the static state and holds v
static_holding(h, p, v) ==
  h.type[p] = "static" /\ h.value[p] = v /\ h.dynamic_value[p] = None

\* p is in the dynamic-with-value state and its cached default is v
dynamic_with_default(h, p, v) ==
  h.type[p] = "dynamic value" /\ h.dynamic_value[p] = v /\ h.value[p] = None

\* to_dynamic then to_static on the static Param p holding v
static_round_trip(p, v) ==
  LET back(d) == /\ Ok(d) /\ dynamic_with_default(d, p, v)
                 /\ Ok(to_static(d, p))
                 /\ static_holding(to_static(d, p), p, v)
  IN back(to_dynamic(Heap, p))

\* to_static then to_dynamic on the dynamic-with-value Param p with default v
dynamic_round_trip(p, v) ==
  LET back(s) == /\ Ok(s) /\ static_holding(s, p, v)
                 /\ Ok(to_dynamic(s, p))
                 /\ dynamic_with_default(to_dynamic(s, p), p, v)
  IN back(to_static(Heap, p))

NextPtr ==
  \/ Link("M", "a", "a")
  \/ type["a"] = "pointer" /\ Link("a", "b", "b")
  \/ \E arg \in {ArgNone, ArgArray(1), ArgParam("b"), ArgCallable} : SetValue("a", arg)
  \/ \E arg \in {ArgNone, ArgArray(2)} : SetValue("b", arg)
  \/ SetDynamicValue("b", ArgArray(1))
  \/ \E p \in PParams : ToDynamic(p)
  \/ \E p \in PParams : ToStatic(p)
  \/ \E v \in BOOLEAN : SetActive("a", v)
  \/ Read("a")

SpecPtr == Init /\ [][NextPtr]_vars

\* what p.to_dynamic() / p.to_static() can leave
converted(p) == {to_dynamic(Heap, p), to_static(Heap, p)}

\* C22: when the resolver of a pointer Param raises, to_dynamic and to_static
\* leave the Param in the pointer state with the same resolver and the same
\* child links; so a pointer becomes dynamic or static by these calls only
\* when its resolver has been evaluated successfully.
C22_FailedResolverKeepsPointer ==
  \A p \in PParams :
    (type[p] = "pointer" /\ ~Ok(call_pointer_func(Heap, p))) =>
      \A r \in converted(p) :
        /\ r.type[p] = "pointer"
        /\ r.pointer_func[p] = pointer_func[p]
        /\ r.children[p] = children[p]

(***************************************************************************)
(* Claims about assignments to an active Param (SpecParam).                *)
(***************************************************************************)
\* the call that left r was rejected with ActiveStateError and left the state
\* tag, value, cached default, shape and child links of p as they are
rejected_unchanged(r, p) ==
  /\ r.err = "ActiveStateError"
  /\ r.type[p] = type[p]
  /\ r.value[p] = value[p]
  /\ r.dynamic_value[p] = dynamic_value[p]
  /\ r.shape[p] = shape[p]
  /\ r.children[p] = children[p]

\* C23: for an active Param p, p.value = x with p static or pointer, and
\* p.dynamic_value = x with p in any state, raise ActiveStateError and leave
\* the state tag, value, cached default, shape and child links of p unchanged.
C23_ActiveAssignmentRejected ==
  \A p \in PParams :
    active[p] =>
      \A arg \in Args \cup {ArgCallable} :
        /\ (is_static(Heap, p) \/ is_pointer(Heap, p))
             => rejected_unchanged(value_setter(Heap, p, arg), p)
        /\ rejected_unchanged(dynamic_value_setter(Heap, p, arg), p)

\* a.dynamic_value = 1 has just been rejected for the active Param a, which
\* is static and holds 1; a.value = None is rejected as well
C23_Witness ==
  /\ Called("dynamic_value", "ActiveStateError")
  /\ active["a"] /\ static_holding(Heap, "a", Some(1))
  /\ value_setter(Heap, "a", ArgNone).err = "ActiveStateError"

\* C24: for an active Param p in the dynamic or dynamic-with-value state,
\* p.value = v does not raise, and a read of p.value then returns v.
C24_ActiveDynamicAcceptsValue ==
  \A p \in PParams :
    (active[p] /\ is_dynamic(Heap, p)) =>
      \A v \in Vals :
        /\ Ok(value_setter(Heap, p, ArgArray(v)))
        /\ value_getter(value_setter(Heap, p, ArgArray(v)), p).ret = Some(v)

(***************************************************************************)
(* SpecValid: the valid range and the cyclic flag of a are reassigned, and  *)
(* values are assigned in between.                                         *)
(***************************************************************************)
\* p.valid = arg
SetValid(p, arg) ==
  /\ Done("valid", p, "", valid_setter(Heap, p, arg))
  /\ UNCHANGED stack

\* p.cyclic = c
SetCyclic(p, c) ==
  /\ Done("cyclic", p, BoolStr(c), cyclic_setter(Heap, p, c))
  /\ UNCHANGED stack

VParams == {"a"}
Bound == {None} \cup {Some(v) : v \in Vals}
ValidArgs ==
  {ValidNone, ValidTriple, ValidList} \cup {ValidTuple(lo, hi) : lo \in Bound, hi \in Bound}

NextValid ==
  \/ \E p \in VParams, arg \in ValidArgs : SetValid(p, arg)
  \/ \E p \in VParams, c \in BOOLEAN : SetCyclic(p, c)
  \/ \E p \in VParams, arg \in {ArgNone, ArgArray(1)} : SetValue(p, arg)
  \/ \E p \in VParams : SetDynamicValue(p, ArgArray(1))

SpecValid == Init /\ [][NextValid]_vars

\* C25: in every reachable state, also after a rejected assignment to valid or
\* to cyclic, a cyclic Param has both bounds, and when both bounds are present
\* the lower one is less than the upper one.
C25_CyclicHasOrderedBounds ==
  \A p \in Params :
    /\ cyclic[p] => (valid[p].lo # None /\ valid[p].hi # None)
    /\ (valid[p].lo # None /\ valid[p].hi # None) => valid[p].lo[1] < valid[p].hi[1]

(***************************************************************************)
(* param.py: Param.__init__(name, value, shape, dynamic_value), the other  *)
(* arguments left at their defaults.  shp is None or Some(shape).          *)
(***************************************************************************)
\* the checks of the arguments; ret is << arg, dynamic_value, _shape >> as
\* they stand before "self.value = value" (_shape None: not assigned)
init_args(h, arg, shp, dyn) ==
  LET mismatch(s) == ~(shp = Some(<< >>) \/ shp = None \/ shp = Some(s))
  IN IF arg.k # "none" /\ dyn.k # "none" THEN Raise(h, "ParamConfigurationError")
     ELSE IF arg.k = "dynamic"
     THEN Return(h, << ArgNone, ArgShaped(arg.n, arg.shape), None >>)
     ELSE IF dyn.k = "dynamic"
     THEN Return(h, << arg, ArgShaped(dyn.n, dyn.shape), None >>)
     ELSE IF arg.k = "none" /\ dyn.k = "none"
     THEN IF shp = None THEN Raise(h, "ParamConfigurationError")
          ELSE Return(h, << arg, dyn, shp >>)
     ELSE IF arg.k = "array"
     THEN IF mismatch(arg.shape) THEN Raise(h, "ParamConfigurationError")
          ELSE Return(h, << arg, dyn, None >>)
     ELSE IF dyn.k = "array"
     THEN IF mismatch(dyn.shape) THEN Raise(h, "ParamConfigurationError")
          ELSE Return(h, << arg, dyn, None >>)
     ELSE Return(h, << arg, dyn, None >>)

\* Param.__init__ for a new object that takes the place of p
param_init(h, p, arg, shp, dyn) ==
  LET \* the object after Node.__init__ and the checks, a being the arguments
      new(a) == [h EXCEPT !.children[p] = << >>, !.parents[p] = {},
                          !.active[p] = FALSE, !.type[p] = "null",
                          !.value[p] = None, !.dynamic_value[p] = None,
                          !.pointer_func[p] = FuncUnset, !.shape[p] = a[3],
                          !.cyclic[p] = FALSE, !.valid[p] = NoBounds,
                          !.transform[p] = "base", !.ret = h.ret]
      \* v: the heap after self.value = value
      cached(v, a) == IF Ok(v) /\ a[1].k = "none"
                      THEN dynamic_value_setter(v, p, a[2]) ELSE v
      build(a) == cached(value_setter(new(a), p, a[1]), a)
      check(c) == IF Ok(c) THEN build(c.ret) ELSE c
  IN check(init_args(h, arg, shp, dyn))

\* p = Param(name, value, shape, dynamic_value): a new Param replaces the
\* unlinked Param p; when the constructor raises nothing is replaced
Construct(p, arg, shp, dyn) ==
  /\ children[p] = << >> /\ parents[p] = {}
  /\ LET made(r) == Done("init", p, "", IF Ok(r) THEN r ELSE Raise(Heap, r.err))
     IN made(param_init(Heap, p, arg, shp, dyn))
  /\ UNCHANGED stack

(***************************************************************************)
(* SpecShape: the Param a is constructed with a shape and given values of  *)
(* shape () and (2,).                                                      *)
(***************************************************************************)
ValueShapes == {<< >>, << 2 >>}
DeclaredShapes == {None} \cup {Some(s) : s \in ValueShapes}
ShapedArrays == {ArgShaped(v, s) : v \in 1 .. MaxVal, s \in ValueShapes}
InitValues == {ArgNone} \cup ShapedArrays \cup {ArgDynamic(1, s) : s \in ValueShapes}

NextShape ==
  \/ \E arg \in InitValues, shp \in DeclaredShapes, dyn \in {ArgNone} \cup ShapedArrays :
        Construct("a", arg, shp, dyn)
  \/ \E arg \in {ArgNone} \cup ShapedArrays : SetValue("a", arg)
  \/ \E arg \in {ArgNone} \cup ShapedArrays : SetDynamicValue("a", arg)
  \/ ToDynamic("a")
  \/ ToStatic("a")
  \/ \E v \in BOOLEAN : SetActive("a", v)

SpecShape == Init /\ [][NextShape]_vars

\* C26: a value or cached default whose shape differs from the shape of the
\* Param is rejected with ParamConfigurationError: by the constructor when the
\* shape differs from the shape argument, and by an assignment to value or
\* dynamic_value of an inactive Param when it differs from the Param's shape.
C26_ShapeMismatchRejected ==
  /\ \A s \in ValueShapes, d \in ValueShapes, v \in 1 .. MaxVal :
       s # d =>
         /\ param_init(Heap, "a", ArgShaped(v, s), Some(d), ArgNone).err
              = "ParamConfigurationError"
         /\ param_init(Heap, "a", ArgNone, Some(d), ArgShaped(v, s)).err
              = "ParamConfigurationError"
         /\ param_init(Heap, "a", ArgDynamic(v, s), Some(d), ArgNone).err
              = "ParamConfigurationError"
  /\ (~active["a"] /\ shape["a"] # None) =>
       \A arg \in ShapedArrays :
         arg.shape # shape["a"][1] =>
           /\ value_setter(Heap, "a", arg).err = "ParamConfigurationError"
           /\ dynamic_value_setter(Heap, "a", arg).err = "ParamConfigurationError"

(***************************************************************************)
(* Claims about ValidContext (SpecFill).                                   *)
(***************************************************************************)
\* the Modules on which a ValidContext is entered at the moment
in_valid_context == { stack[i].obj : i \in { j \in 1 .. Len(stack) :
                                              stack[j].kind = "ValidContext" } }

\* C30: inside ValidContext(m), valid_context is true on m and on every Module
\* below m.
C30_ValidContextReachesDescendants ==
  \A m \in in_valid_context :
    \A s \in below(children, m) \cap Modules : valid_context[s]

(***************************************************************************)
(* module.py: dynamic values filled from arrays and the bundles built from *)
(* them.  An array is its shape and its entries in row-major order.        *)
(***************************************************************************)
Arr(shp, data) == [shape |-> shp, data |-> data]
\* params.shape[-1] and tuple(params.shape[:-1])
last_dim(x) == x.shape[Len(x.shape)]
batch_of(x) == SubSeq(x.shape, 1, Len(x.shape) - 1)

\* x[..., pos : pos + size], clipped as Python slices are
slice_last(x, pos, size) ==
  LET L == last_dim(x)
      lo == Min(pos, L)
      hi == Min(pos + size, L)
      RECURSIVE rows(_)
      rows(r) == IF r >= prod(batch_of(x)) THEN << >>
                 ELSE SubSeq(x.data, r * L + lo + 1, r * L + hi) \o rows(r + 1)
  IN Arr(batch_of(x) \o << hi - lo >>, rows(0))

\* backend.concatenate(xs, axis=-1) of arrays whose leading dimensions agree
concatenate(xs) ==
  LET RECURSIVE width(_)
      width(i) == IF i > Len(xs) THEN 0 ELSE last_dim(xs[i]) + width(i + 1)
      RECURSIVE row(_, _)
      row(r, i) == IF i > Len(xs) THEN << >>
                   ELSE SubSeq(xs[i].data, r * last_dim(xs[i]) + 1,
                               (r + 1) * last_dim(xs[i])) \o row(r, i + 1)
      RECURSIVE rows(_)
      rows(r) == IF r >= prod(batch_of(xs[1])) THEN << >>
                 ELSE row(r, 1) \o rows(r + 1)
  IN Arr(batch_of(xs[1]) \o << width(1) >>, rows(0))

\* Param._to_valid_cyclic and Param._from_valid_cyclic on one entry:
\* ((value - valid[0]) % (valid[1] - valid[0])) + valid[0]
cyclic_entry(h, p, x) ==
  LET lo == h.valid[p].lo[1]
      hi == h.valid[p].hi[1]
  IN ((x - lo) % (hi - lo)) + lo

\* Param.to_valid and Param.from_valid on an array: _to_valid_base keeps it,
\* the cyclic maps act entry by entry
array_valid(h, p, x) ==
  IF h.transform[p] = "base" THEN x
  ELSE Arr(x.shape, [i \in 1 .. Len(x.data) |-> cyclic_entry(h, p, x.data[i])])

\* Module.to_valid(params, local) and Module.from_valid(valid_params, local)
\* for an array (the two loops are the same and so are the maps of the Params
\* they reach); ret is the array
valid_array(h, m, x, local) ==
  LET dyn == params_of(h, m, local)
      RECURSIVE each(_, _, _)
      each(i, pos, out) ==
        IF i > Len(dyn)
        THEN IF out = << >> THEN Raise(h, "ValueError")  \* concatenate([])
             ELSE Return(h, concatenate(out))
        ELSE LET p == dyn[i]
             IN IF h.shape[p] = None THEN Raise(h, "TypeError")  \* prod(None)
                ELSE LET size == Max(1, prod(h.shape[p][1]))
                         part == slice_last(x, pos, size)
                     IN IF prod(part.shape) # prod(batch_of(x) \o h.shape[p][1])
                        THEN Raise(h, "ValueError")  \* backend.view
                        ELSE each(i + 1, pos + size,
                                  Append(out, array_valid(h, p, part)))
  IN IF x.shape = << >> /\ dyn # << >>
     THEN Raise(h, "IndexError")  \* params[..., pos : pos + size]
     ELSE each(1, 0, << >>)

\* Module._fill_values(params, local, dynamic_values=True) for an array
fill_values_array(h, m, x, local) ==
  LET dyn == params_of(h, m, local)
      RECURSIVE each(_, _, _)
      each(g, i, pos) ==
        IF ~Ok(g) THEN g
        ELSE IF i > Len(dyn)
        THEN IF pos # last_dim(x) THEN Raise(g, "FillDynamicParamsArrayError")
             ELSE g
        ELSE LET p == dyn[i]
             IN IF g.shape[p] = None THEN Raise(g, "ParamConfigurationError")
                ELSE LET shp == batch_of(x) \o g.shape[p][1]
                         size == Max(1, prod(g.shape[p][1]))
                         part == slice_last(x, pos, size)
                     IN IF prod(part.shape) # prod(shp)
                        THEN Raise(g, "FillDynamicParamsArrayError")
                        ELSE each(dynamic_value_setter(
                                    g, p, ArgShaped(Arr(shp, part.data), shp)),
                                  i + 1, pos + size)
  IN IF x.shape = << >> THEN Raise(h, "IndexError")  \* params.shape[-1]
     ELSE IF last_dim(x) = 0 THEN h
     ELSE each(h, 1, 0)

\* Module.fill_dynamic_values(params) for an array
fill_dynamic_values_array(h, m, x) ==
  IF h.active[m] THEN Raise(h, "ActiveStateError")
  ELSE IF h.valid_context[m]
  THEN LET fill(r) == IF ~Ok(r) THEN r
                       ELSE fill_values_array(Return(r, << >>), m, r.ret, FALSE)
       IN fill(valid_array(h, m, x, FALSE))
  ELSE fill_values_array(h, m, x, FALSE)

\* Param.shape (setter)
shape_setter(h, p, s) ==
  IF is_pointer(h, p) THEN Raise(h, "ParamTypeError")
  ELSE [h EXCEPT !.shape[p] = Some(s)]

\* Module._check_dynamic_values
check_dynamic_values(h, m) ==
  IF ~h.all_dynamic_value[m] THEN Raise(h, "ParamConfigurationError") ELSE h

\* A faulty Param.to_valid: a cyclic Param sends every value to its lower
\* bound.
param_to_valid_low(h, p, v, arrays) ==
  IF is_pointer(h, p) THEN Raise(h, "ParamTypeError")
  ELSE IF h.transform[p] = "base" THEN Return(h, v)
  ELSE IF Len(v) # 1 THEN Raise(h, "TypeError")
  ELSE IF arrays
  THEN Return(h, Some(Arr(v[1].shape,
                          [i \in 1 .. Len(v[1].data) |-> h.valid[p].lo[1]])))
  ELSE Return(h, Some(h.valid[p].lo[1]))

\* Param.to_valid(value) for a dynamic Param; arrays: the value is an array,
\* else a number.  With bounds set the value enters arithmetic, which a
\* list, a dict or None does not support.
param_to_valid_any(h, p, v, arrays) ==
  IF is_pointer(h, p) THEN Raise(h, "ParamTypeError")
  ELSE IF h.transform[p] = "base" THEN Return(h, v)
  ELSE IF Len(v) # 1 THEN Raise(h, "TypeError")
  ELSE IF arrays THEN Return(h, Some(array_valid(h, p, v[1])))
  ELSE Return(h, Some(cyclic_entry(h, p, v[1])))

RECURSIVE to_valid_bundle(_, _, _, _, _)
\* Module.to_valid(params, local) for a list, a dict or (arrays) an array in
\* a list; ret is valid_params
to_valid_bundle(h, self, e, local, arrays) ==
  IF arrays /\ Len(e) = 1
  THEN LET one(r) == IF ~Ok(r) THEN r ELSE Return(r, Some(r.ret))
       IN one(valid_array(h, self, e[1], local))
  ELSE IF IsList(e)
  THEN LET RECURSIVE each(_, _, _)
           each(dyn, i, out) ==
             IF i > Len(dyn) THEN Return(h, List(out))
             ELSE LET take(r) == IF ~Ok(r) THEN r
                                 ELSE each(dyn, i + 1, Append(out, r.ret))
                  IN take(param_to_valid_any(h, dyn[i], e[2][i], arrays))
           RECURSIVE modules(_, _, _)
           modules(mods, i, out) ==
             IF i > Len(mods) THEN Return(h, List(out))
             ELSE LET take(r) == IF ~Ok(r) THEN r
                                 ELSE modules(mods, i + 1, Append(out, r.ret))
                  IN take(to_valid_bundle(h, mods[i], e[2][i], TRUE, arrays))
           by_length(dyn) ==
             IF Len(e[2]) = Len(dyn) THEN each(dyn, 1, << >>)
             ELSE IF h.dynamic_modules[self] = None THEN Raise(h, "AttributeError")
             ELSE IF Len(e[2]) = Len(h.dynamic_modules[self][1])
             THEN modules(h.dynamic_modules[self][1], 1, << >>)
             ELSE Raise(h, "FillDynamicParamsSequenceError")
       IN by_length(params_of(h, self, local))
  ELSE IF IsDict(e)
  THEN LET convert(key, v) ==
             IF key \notin child_keys(h.children, self)
             THEN mapping_error(h, self, key)
             ELSE LET branch(c) ==
                        IF c \in Modules /\ node_dynamic(h, c)
                        THEN to_valid_bundle(h, c, v, TRUE, arrays)
                        ELSE IF is_dynamic_param(h, c)
                        THEN param_to_valid_any(h, c, v, arrays)
                        ELSE mapping_error(h, self, key)
                  IN branch(h.children[self][child_at(h.children, self, key)].node)
           RECURSIVE each(_, _)
           each(i, out) ==
             IF i > Len(e[2]) THEN Return(h, Dict(e[2], out))
             ELSE LET take(r) == IF ~Ok(r) THEN r
                                 ELSE each(i + 1, Append(out, r.ret))
                  IN take(convert(e[2][i], e[3][i]))
       IN each(1, << >>)
  ELSE Raise(h, "TypeError")

\* Module.build_params_array; ret is the array
build_params_array(h, m) ==
  LET dyn == h.dynamic_params[m]
      \* backend.copy(value).reshape(B, -1) and backend.copy(value).flatten()
      flat(v, batched) ==
        IF batched THEN Arr(<< v.shape[1], prod(Tail(v.shape)) >>, v.data)
        ELSE Arr(<< prod(v.shape) >>, v.data)
      join(xs) ==
        IF \E j \in 1 .. Len(xs) : batch_of(xs[j]) # batch_of(xs[1])
        THEN Raise(h, "ValueError")  \* backend.concatenate
        ELSE Return(h, concatenate(xs))
      RECURSIVE each(_, _, _)
      each(i, xs, is_batched) ==
        IF i > Len(dyn)
        THEN IF xs = << >> THEN Return(h, Arr(<< 0 >>, << >>))
             ELSE IF h.valid_context[m]
             THEN join([j \in 1 .. Len(xs) |-> array_valid(h, dyn[j], xs[j])])
             ELSE join(xs)
        ELSE LET p == dyn[i]
                 take(v, shp) ==
                   IF v = None THEN Raise(h, "AttributeError")  \* None.shape
                   ELSE IF shp = None THEN Raise(h, "TypeError")  \* len(None)
                   ELSE LET b == Len(v[1].shape) - Len(shp[1]) = 1
                        IN IF is_batched # None /\ is_batched[1] # b
                           THEN Raise(h, "ParamConfigurationError")
                           ELSE each(i + 1, Append(xs, flat(v[1], b)), Some(b))
             IN take(value_getter(h, p).ret, h.shape[p])
  IN IF ~Ok(check_dynamic_values(h, m)) THEN check_dynamic_values(h, m)
     ELSE each(1, << >>, None)

\* Module.build_params_list; ret is the list.  backend.copy is
\* array.detach().clone(), which None does not have.
build_params_list(h, m) ==
  LET dyn == h.dynamic_params[m]
      RECURSIVE each(_, _)
      each(i, xs) ==
        IF i > Len(dyn)
        THEN IF h.valid_context[m] THEN to_valid_bundle(h, m, List(xs), FALSE, TRUE)
             ELSE Return(h, List(xs))
        ELSE LET take(v) == IF v = None THEN Raise(h, "AttributeError")
                            ELSE each(i + 1, Append(xs, v))
             IN take(value_getter(h, dyn[i]).ret)
  IN IF ~Ok(check_dynamic_values(h, m)) THEN check_dynamic_values(h, m)
     ELSE each(1, << >>)

RECURSIVE recursive_build_params_dict(_, _, _)
\* Module._recursive_build_params_dict(unique_params); the result holds the
\* dict and unique_params as the call leaves it
recursive_build_params_dict(h, self, unique) ==
  LET kids == h.children[self]
      RECURSIVE modules(_, _, _, _)
      modules(i, ks, vs, seen) ==
        IF i > Len(kids) THEN [err |-> "", dict |-> Dict(ks, vs), unique |-> seen]
        ELSE IF kids[i].node \in Modules /\ Len(h.dynamic_params[kids[i].node]) > 0
        THEN LET sub(r) == IF r.err # "" THEN r
                           ELSE modules(i + 1, Append(ks, kids[i].key),
                                        Append(vs, r.dict), r.unique)
             IN sub(recursive_build_params_dict(h, kids[i].node, seen))
        ELSE modules(i + 1, ks, vs, seen)
      RECURSIVE own(_, _, _, _)
      own(i, ks, vs, seen) ==
        IF i > Len(kids) THEN modules(1, ks, vs, seen)
        ELSE IF is_dynamic_param(h, kids[i].node) /\ kids[i].node \notin seen
        THEN LET take(v) ==
                   IF v = None
                   THEN [err |-> "AttributeError", dict |-> << >>, unique |-> seen]
                   ELSE own(i + 1, Append(ks, kids[i].key), Append(vs, v),
                            seen \cup {kids[i].node})
             IN take(value_getter(h, kids[i].node).ret)
        ELSE own(i + 1, ks, vs, seen)
  IN own(1, << >>, << >>, unique)

\* Module.build_params_dict; ret is the dict
build_params_dict(h, m) ==
  LET built(r) == IF r.err # "" THEN Raise(h, r.err)
                  ELSE IF h.valid_context[m]
                  THEN to_valid_bundle(h, m, r.dict, FALSE, TRUE)
                  ELSE Return(h, r.dict)
  IN IF ~Ok(check_dynamic_values(h, m)) THEN check_dynamic_values(h, m)
     ELSE built(recursive_build_params_dict(h, m, {}))

\* Module._fill_values(params, dynamic_values=True) for a list of arrays
fill_values_list(h, m, e) ==
  LET RECURSIVE assign(_, _, _)
      assign(g, dyn, i) ==
        IF i > Len(dyn) \/ ~Ok(g) THEN g
        ELSE assign(dynamic_value_setter(
                      g, dyn[i], ArgShaped(e[2][i][1], e[2][i][1].shape)),
                    dyn, i + 1)
      RECURSIVE modules(_, _, _)
      modules(g, mods, i) ==
        IF i > Len(mods) \/ ~Ok(g) THEN g
        ELSE modules(fill_values_array(g, mods[i], e[2][i][1], TRUE), mods, i + 1)
  IN IF Len(e[2]) = 0 THEN h
     ELSE IF Len(e[2]) = Len(h.dynamic_params[m])
     THEN assign(h, h.dynamic_params[m], 1)
     ELSE IF h.dynamic_modules[m] = None THEN Raise(h, "AttributeError")
     ELSE IF Len(e[2]) = Len(h.dynamic_modules[m][1])
     THEN modules(h, h.dynamic_modules[m][1], 1)
     ELSE Raise(h, "FillDynamicParamsSequenceError")

\* Module.from_valid for a list or a dict of arrays: it has the branches of
\* Module.to_valid, and Param.from_valid is Param.to_valid on a Param without
\* bounds and on a cyclic one
from_valid_arrays(h, m, e) == to_valid_bundle(h, m, e, FALSE, TRUE)

\* Module.fill_dynamic_values(params) for a list of arrays
fill_dynamic_values_list(h, m, e) ==
  IF h.active[m] THEN Raise(h, "ActiveStateError")
  ELSE IF h.valid_context[m]
  THEN LET fill(r) == IF ~Ok(r) THEN r
                       ELSE fill_values_list(Return(r, << >>), m, r.ret)
       IN fill(from_valid_arrays(h, m, e))
  ELSE fill_values_list(h, m, e)

\* m.fill_dynamic_values(array)
FillDynamicArray(m, x) ==
  /\ Done("fill_dynamic_values", m, "", fill_dynamic_values_array(Heap, m, x))
  /\ UNCHANGED stack

\* m.fill_dynamic_values(list of arrays)
FillDynamicList(m, e) ==
  /\ Done("fill_dynamic_values", m, "", fill_dynamic_values_list(Heap, m, e))
  /\ UNCHANGED stack

\* p.shape = s
SetShape(p, s) ==
  /\ Done("shape", p, "", shape_setter(Heap, p, s))
  /\ UNCHANGED stack

\* m.build_params_array(), m.build_params_list(), m.build_params_dict()
Build(kind, m) ==
  LET built(r) == Done(kind, m, "", [r EXCEPT !.ret = << >>])
  IN /\ built(CASE kind = "build_params_array" -> build_params_array(Heap, m)
                [] kind = "build_params_list" -> build_params_list(Heap, m)
                [] OTHER -> build_params_dict(Heap, m))
     /\ UNCHANGED stack

(***************************************************************************)
(* SpecBuild: the graph Built with a = Param("a", shape=sa) and            *)
(* c = Param("c", shape=(), cyclic=True, valid=(0, 2)).  The cached        *)
(* defaults of M are filled from arrays and lists of arrays, reset and     *)
(* built into bundles, inside and outside one ValidContext.                *)
(***************************************************************************)
BuildShapes == {<< >>, << 2 >>}
BuildKinds == {"build_params_array", "build_params_list", "build_params_dict"}
\* the arrays filled in: their entries are 1, 2, ... in row-major order
BuildArrays ==
  {Arr(b \o << L >>, [i \in 1 .. prod(b) * L |-> i]) :
     b \in {<< >>, << 2 >>}, L \in 0 .. MaxLen}
Leaves == {Some(Arr(<< >>, << 1 >>)), Some(Arr(<< 2 >>, << 3, 4 >>))}
BuildLists ==
  {List(xs) : xs \in UNION {[1 .. n -> Leaves] : n \in 0 .. 2}}

InitBuild ==
  \E sa \in BuildShapes :
    Start([Built EXCEPT !.shape["a"] = Some(sa), !.shape["c"] = Some(<< >>)])

NextBuild ==
  \/ \E x \in BuildArrays : FillDynamicArray("M", x)
  \/ \E e \in BuildLists : FillDynamicList("M", e)
  \/ \E p \in {"a", "c"} : SetDynamicValue(p, ArgNone)
  \/ SetValue("a", ArgNone)
  \/ \E s \in BuildShapes : SetShape("a", s)
  \/ \E kind \in BuildKinds : Build(kind, "M")
  \/ ~valid_context["M"] /\ EnterValid("M")
  \/ ExitValid

SpecBuild == InitBuild /\ [][NextBuild]_vars

\* some dynamic Param below m has no cached default
missing_default(h, m) ==
  \E i \in 1 .. Len(h.dynamic_params[m]) :
    h.dynamic_value[h.dynamic_params[m][i]] = None

\* what the three build calls leave
builds(h, m) ==
  << build_params_array(h, m), build_params_list(h, m), build_params_dict(h, m) >>

\* C27: in every state, when a dynamic Param below M has no cached default,
\* build_params_array, build_params_list and build_params_dict each raise
\* ParamConfigurationError and change no Param.
C27_BuildNeedsEveryDefault ==
  missing_default(Heap, "M") =>
    \A k \in 1 .. 3 :
      /\ builds(Heap, "M")[k].err = "ParamConfigurationError"
      /\ [builds(Heap, "M")[k] EXCEPT !.err = "", !.ret = << >>]
           = [Heap EXCEPT !.err = "", !.ret = << >>]

\* M.fill_dynamic_values(x); M.build_params_array() returns x
array_comes_back(h, x) ==
  LET rebuilt(r) == Ok(r) => /\ build_params_array(r, "M").err = ""
                             /\ build_params_array(r, "M").ret = x
  IN rebuilt(fill_dynamic_values_array(h, "M", x))

\* M.fill_dynamic_values(e); M.build_params_list() returns e
list_comes_back(h, e) ==
  LET rebuilt(r) == Ok(r) => /\ build_params_list(r, "M").err = ""
                             /\ build_params_list(r, "M").ret = e
  IN rebuilt(fill_dynamic_values_list(h, "M", e))

\* C28: in every state (the dynamic Params of M all have a shape), for every
\* flat array x, with or without a batch prefix, that M.fill_dynamic_values
\* accepts, M.build_params_array() then returns an array equal to x; and for
\* every list that M.fill_dynamic_values accepts, M.build_params_list() then
\* returns the list entry for entry.
C28_FillThenBuildComesBack ==
  /\ \A x \in BuildArrays : array_comes_back(Heap, x)
  /\ \A e \in BuildLists : list_comes_back(Heap, e)

(***************************************************************************)
(* module.py: bundles taken to the unbounded space and back.               *)
(***************************************************************************)
\* m.from_valid(m.to_valid(e)) for a list or a dict of numbers
round_trip(h, m, e) ==
  LET back(r) == IF ~Ok(r) THEN r
                 ELSE from_valid_bundle(Return(r, << >>), m, r.ret, FALSE)
  IN back(to_valid_bundle(h, m, e, FALSE, FALSE))

\* m.from_valid(m.to_valid(x)) for an array
round_trip_array(h, m, x) ==
  LET back(r) == IF ~Ok(r) THEN r
                 ELSE valid_array(Return(r, << >>), m, r.ret, FALSE)
  IN back(valid_array(h, m, x, FALSE))

\* m.to_valid(e), e a list or a dict of numbers or an array; the call is
\* recorded with its bundle and its result
ToValid(m, form, e) ==
  LET done(r) == Done("to_valid", m,
                      [form |-> form, params |-> e, info |-> r.ret],
                      [r EXCEPT !.ret = << >>])
  IN /\ done(IF form = "array" THEN valid_array(Heap, m, e, FALSE)
             ELSE to_valid_bundle(Heap, m, e, FALSE, FALSE))
     /\ UNCHANGED stack

\* m.from_valid(v), v the bundle that the last call of m.to_valid returned
FromValid(m) ==
  LET done(r) == Done("from_valid", m,
                      [form |-> last.arg.form, params |-> last.arg.params,
                       info |-> r.ret],
                      [r EXCEPT !.ret = << >>])
  IN /\ last.op = "to_valid" /\ last.self = m /\ last.err = ""
     /\ done(IF last.arg.form = "array"
             THEN valid_array(Heap, m, last.arg.info, FALSE)
             ELSE from_valid_bundle(Heap, m, last.arg.info, FALSE))
     /\ UNCHANGED stack

(***************************************************************************)
(* SpecRound: the graph of SpecBuild, where b is in turn a pointer, static *)
(* and dynamic with shape (); bundles of every form are handed to          *)
(* M.to_valid and the result to M.from_valid.                              *)
(***************************************************************************)
NextRound ==
  \/ \E e \in FillBundles : ToValid("M", "bundle", e)
  \/ \E x \in BuildArrays : ToValid("M", "array", x)
  \/ FromValid("M")
  \/ \E arg \in {ArgNone, ArgArray(1), ArgParam("a")} : SetValue("b", arg)
  \/ SetShape("b", << >>)

SpecRound == InitBuild /\ [][NextRound]_vars

\* Module._fill_values accepts the bundle
accepted(h, m, e) == Ok(fill_bundle(h, m, e, FALSE))
accepted_array(h, m, x) == Ok(fill_values_array(h, m, x, FALSE))

\* the bundle gives every dynamic Param it reaches a number
plain(h, m, e) ==
  \A p \in Range(h.dynamic_params[m]) : Len(fill_bundle(h, m, e, FALSE).value[p]) <= 1

RECURSIVE skeleton(_)
\* the structure of a bundle: list lengths and mapping keys
skeleton(e) ==
  IF IsList(e) THEN List([i \in 1 .. Len(e[2]) |-> skeleton(e[2][i])])
  ELSE IF IsDict(e) THEN Dict(e[2], [i \in 1 .. Len(e[3]) |-> skeleton(e[3][i])])
  ELSE << >>

\* what a cyclic Param with bounds (lo, hi) makes of an entry: the entry
\* reduced into [lo, hi); any other Param of the graph keeps it
reduced(h, p, v) ==
  IF v = None \/ h.transform[p] = "base" THEN v
  ELSE Some(cyclic_entry(h, p, v[1]))
reduced_array(h, p, v) ==
  IF v = None THEN v
  ELSE Some(Arr(v[1].shape, array_valid(h, p, v[1]).data))

AllListOps ==
  {"append", "insert", "pop", "remove", "clear", "setitem", "extend", "iadd",
   "delitem", "setslice", "delslice"}

NextList ==
  \/ \E op \in AllListOps, x \in {"n1", "n2"} :
       Len(items["L"]) < MaxLen /\ ListCall("L", op, x)
  \/ Link("n1", "L", "L")
  \/ UnlinkNode("n1", "L")
  \/ \E v \in BOOLEAN : SetActive("L", v)

SpecList == Init /\ [][NextList]_vars

\* the children of l in order are the elements of l in order, and every
\* element has l among its parents
list_in_step(l) ==
  /\ [i \in 1 .. Len(children[l]) |-> children[l][i].node] = items[l]
  /\ \A i \in 1 .. Len(items[l]) : l \in parents[items[l][i]]

\* C31: after every NodeList operation, whether it succeeded or raised, the
\* elements of the list in order are the values of its children map in order
\* and every element has the list among its parents.
C31_ListMatchesChildren ==
  last.op \in AllListOps => list_in_step("L")

(***************************************************************************)
(* SpecCache: on the graph Built, M is activated and deactivated, filled   *)
(* and cleared, a is overridden, and the pointers b and d are read; every  *)
(* read records what it returned.                                          *)
(***************************************************************************)
\* x = p.value; last.arg is x (None when the read raised)
Get(p) ==
  /\ LET got(r) == Done("get", p, IF Ok(r) THEN r.ret ELSE None, NoRet(r))
     IN got(value_getter(Heap, p))
  /\ UNCHANGED stack

Pointers == {"b", "d"}
\* Deepest nesting of context managers around the reads.
CacheDepth == 2

NextCache ==
  \/ \E act \in BOOLEAN : Len(stack) < CacheDepth /\ EnterActive("M", act)
  \/ ExitActive
  \/ Len(stack) < CacheDepth /\ EnterOverride("a", 0)
  \/ ExitOverride
  \/ \E params \in Bundles : Fill("M", params)
  \/ ClearParams("M")
  \/ \E p \in Pointers : Get(p)

SpecCache == InitCtx /\ [][NextCache]_vars

\* p stays active over the step and the step neither enters nor leaves an
\* OverrideParam
stays_active(p) ==
  /\ active[p] /\ active'[p]
  /\ last'.op \notin {"enter_override", "exit_override"}

\* the step is a read of p that returned without raising
read_of(p) == last'.op = "get" /\ last'.self = p /\ last'.err = ""

\* the step is a read of p that finds a stored result
later_read_of(p) == last'.op = "get" /\ last'.self = p /\ value[p] # None

\* C32 as stated: while a pointer stays active and no OverrideParam is entered
\* or left, a read stores what it returns, a stored result is kept by every
\* step and returned by every later read, and a read while the pointer is
\* inactive stores nothing.
C32_ResolverRunsOnce ==
  [][\A p \in Pointers :
       /\ stays_active(p) =>
            /\ read_of(p) => value'[p] # None /\ value'[p] = last'.arg
            /\ value[p] # None => value'[p] = value[p]
            /\ later_read_of(p) => last'.err = "" /\ last'.arg = value[p]
       /\ last'.op = "get" /\ last'.self = p /\ ~active[p] => value' = value]_vars

\* C32 (amended): the same, but a result of None is not stored (the next read
\* runs the resolver again), and clear_params empties the stored result while
\* the pointer stays active.
C32_ResolverRunsOncePerFill ==
  [][\A p \in Pointers :
       /\ stays_active(p) =>
            /\ read_of(p) => value'[p] = last'.arg
            /\ value[p] # None /\ last'.op # "clear_params" => value'[p] = value[p]
            /\ later_read_of(p) => last'.err = "" /\ last'.arg = value[p]
       /\ last'.op = "get" /\ last'.self = p /\ ~active[p] => value' = value]_vars

\* d was read while active: the sum of a and b was returned and is stored
C32_Witness ==
  /\ last.op = "get" /\ last.self = "d" /\ last.err = ""
  /\ active["d"]
  /\ last.arg # None
  /\ value["d"] = last.arg
  /\ value["b"] # None

\* C33: in every reachable state, a pointer Param that is inactive has an
\* empty transient value slot, so a cached resolution never outlives the
\* activation in which it was computed.
C33_NoCacheOutlivesActivation ==
  \A p \in Params : is_pointer(Heap, p) /\ ~active[p] => value[p] = None

\* C34: for every graph shape and every Param p, leaving OverrideParam(p, v)
\* puts back into the transient value slot of p and of every pointer Param
\* above it exactly what the slot held at enter, also when such a pointer is
\* reached from p along two chains of pointer Params.
C34_ExitRestoresEverySlot ==
  \A p \in Params :
    LET left(r) == override_exit(NoRet(r), r.ret)
    IN left(override_enter(Heap, p, 0)).value = value

(***************************************************************************)
(* SpecVia: a pointer that reads a Param through a Module, as d_param does *)
(* in test_full_integration_v2:                                            *)
(*   S.link(c); b.value = lambda p: p["S"]["c"].value; b.link("S", S)      *)
(*   d.value = b; M.link(a); M.link(b); M.link(d); M.link(S)               *)
(* so b and d have c among their descendants, and c has no Param parent.   *)
(***************************************************************************)
Through ==
  link(link(link(link(
    value_setter(
      link(value_setter(link(Fresh, "S", "c", "c"), "b", ArgVia("S")),
           "b", "S", "S"),
      "d", ArgParam("b")),
    "M", "a", "a"), "M", "b", "b"), "M", "d", "d"), "M", "S", "S")

InitVia == Start(Through)

NextVia ==
  \/ \E act \in BOOLEAN : Len(stack) < CacheDepth /\ EnterActive("M", act)
  \/ ExitActive
  \/ \E p \in {"a", "c"} : Len(stack) < CacheDepth /\ EnterOverride(p, 0)
  \/ ExitOverride
  \/ \E params \in Bundles : Fill("M", params)
  \/ ClearParams("M")
  \/ \E p \in Pointers : Get(p)

SpecVia == InitVia /\ [][NextVia]_vars

\* C35: entering OverrideParam(p, v) empties the cached resolution of every
\* pointer Param that has p among its descendants, whatever kinds of node lie
\* between the pointer and p.
C35_OverrideEmptiesEveryPointerAbove ==
  \A p \in Params, q \in Params :
    (is_pointer(Heap, q) /\ p \in strictly_below(children, q)) =>
      override_enter(Heap, p, 0).value[q] = None

(***************************************************************************)
(* SpecNest: on the graph Built, ActiveContexts on M and on the Module S   *)
(* below it are nested in any order, and both modules are filled.          *)
(***************************************************************************)
NextNest ==
  \/ \E m \in Modules, act \in BOOLEAN : EnterActive(m, act)
  \/ ExitActive
  \/ \E m \in Modules, params \in Bundles : Fill(m, params)

SpecNest == InitCtx /\ [][NextNest]_vars

\* with ActiveContext(m, act): pass, entered in the heap h: the heap after
\* the block is left
nested_pass(h, m, act) ==
  LET left(e) ==
        IF ~Ok(e) THEN e
        ELSE active_exit(NoRet(e), Frame("ActiveContext", m, act, h.active[m], e.ret))
  IN left(active_enter(h, m, act))

\* the active flags and the values of the dynamic Params are those of h
same_flags_and_fills(x, h) ==
  /\ Ok(x)
  /\ x.active = h.active
  /\ \A p \in Params : is_dynamic(h, p) => x.value[p] = h.value[p]

\* C36: inside any nesting of ActiveContexts, an inner ActiveContext on the
\* same module, on a module below or on a module above leaves, when it exits,
\* every active flag and every filled value of a dynamic Param as they were
\* immediately before it was entered.
C36_InnerContextRestores ==
  stack # << >> =>
    \A m \in Modules, act \in BOOLEAN :
      same_flags_and_fills(nested_pass(Heap, m, act), Heap)

\* lists with one entry per dynamic Module: lists of numbers, a dict and a
\* list that is itself grouped by module
GroupedLists ==
  { List(<< List(<< Some(1), Some(2) >>), List(<< Some(2) >>) >>),
    List(<< List(<< Some(1) >>), List(<< Some(2) >>) >>),
    List(<< Some(1), Some(2) >>),
    List(<< Dict(<< "a" >>, << Some(1) >>), List(<< Some(2) >>) >>),
    List(<< Dict(<< "S" >>, << Dict(<< "c" >>, << Some(1) >>) >>), List(<< >>) >>) }

\* module.local_dynamic_params.values()
local_params(h, m) == Range(params_of(h, m, TRUE))

RECURSIVE each_fills_its_own(_, _, _, _)
\* for module, value in zip(mods, es): module._fill_values(value, local=True)
\* changes the value of no Param but the direct dynamic Params of module
each_fills_its_own(g, mods, es, i) ==
  LET own(r) ==
        \/ ~Ok(r)
        \/ /\ \A p \in Params \ local_params(g, mods[i]) : r.value[p] = g.value[p]
           /\ each_fills_its_own(r, mods, es, i + 1)
  IN i > Len(mods) \/ own(fill_bundle(g, mods[i], es[i], TRUE))

\* C37: a non-empty list whose length is not the number of dynamic Params of
\* M but is the number of its dynamic Modules is filled entry by entry, the
\* j-th entry by the j-th dynamic Module, which changes only its own direct
\* dynamic Params; a list whose length is both numbers is filled with one
\* entry per dynamic Param.
C37_EachModuleFillsItsOwn ==
  (active["M"] /\ ~valid_context["M"] /\ dynamic_modules["M"] # None) =>
    \A e \in GroupedLists :
      LET dyn == dynamic_params["M"]
          mods == dynamic_modules["M"][1]
          n == Len(e[2])
      IN /\ (n # Len(dyn) /\ n = Len(mods)) =>
              each_fills_its_own(Heap, mods, e[2], 1)
         /\ (n = Len(dyn) /\ n = Len(mods)) =>
              \A i \in 1 .. n :
                fill_params_bundle(Heap, "M", e).value[dyn[i]] = e[2][i]

\* the dynamic_params and pointer_params of every Module are what its
\* topological ordering gives
caches_match(h) ==
  \A m \in Modules :
    /\ h.dynamic_params[m] = topological_ordering_with_type(h, m, "dynamic")
    /\ h.pointer_params[m] = topological_ordering_with_type(h, m, "pointer")

\* r differs from h in nothing that belongs to the Param p
param_kept(r, h, p) ==
  /\ r.type[p] = h.type[p]
  /\ r.value[p] = h.value[p]
  /\ r.dynamic_value[p] = h.dynamic_value[p]
  /\ r.pointer_func[p] = h.pointer_func[p]
  /\ r.children[p] = h.children[p]

\* C38: p.value = q for a Param q, when the link p -> q would close a cycle
\* or meet a used key, raises GraphError and leaves the state tag, the value,
\* the cached default, the resolver and the child links of p as they were,
\* and the dynamic_params and pointer_params of every Module still match the
\* graph.
C38_RejectedAssignmentChangesNothing ==
  \A p \in PParams, q \in PParams :
    LET kept(r) ==
          /\ (~active[p] /\ p \in below(children, q)) => r.err = "GraphError"
          /\ r.err = "GraphError" =>
               /\ param_kept(r, Heap, p)
               /\ caches_match(Heap) => caches_match(r)
    IN kept(value_setter(Heap, p, ArgParam(q)))

\* c is a value of p.children exactly when p is in c.parents
both_directions(h) ==
  \A p \in Objects, c \in Objects :
    c \in child_values(h.children, p) <=> p \in h.parents[c]

\* C39: in every reachable state, c is a value of p.children if and only if
\* p is a member of c.parents, and a link that succeeds followed by the
\* unlink of the same child leaves the children maps and the parents sets as
\* they were before the link.
C39_ChildrenMirrorParents ==
  /\ both_directions(Heap)
  /\ \A self \in PObjects, child \in PObjects :
       LET undone(r) ==
             Ok(r) => LET same(u) == /\ Ok(u)
                                     /\ u.children = children
                                     /\ u.parents = parents
                      IN same(unlink_node(r, self, child))
       IN undone(link(Heap, self, name(child), child))

\* M.unlink(a) has just succeeded while a points to b, and M can link a again
C39_Witness ==
  /\ Called("unlink", "")
  /\ "b" \in child_values(children, "a")
  /\ "a" \in parents["b"]
  /\ "a" \notin child_values(children, "M")
  /\ Ok(link(Heap, "M", "a", "a"))

\* self._pointer_func is a callable
has_resolver(h, p) == h.pointer_func[p].k \notin {"none", "unset"}

\* the state tag of p says what the slots of p hold
tag_agrees(h, p) ==
  /\ h.type[p] = "dynamic value" <=> h.dynamic_value[p] # None
  /\ h.type[p] = "dynamic" <=>
       (h.dynamic_value[p] = None /\ h.value[p] = None /\ ~has_resolver(h, p))
  /\ h.type[p] = "static" <=> (h.value[p] # None /\ ~has_resolver(h, p))
  /\ h.type[p] = "pointer" <=> has_resolver(h, p)

\* C40: in every reachable state, for every inactive Param the state tag
\* agrees with the slots: dynamic-with-value exactly when the cached default
\* is non-empty, dynamic exactly when there is no cached default, no value and
\* no resolver, static exactly when the value slot holds a value and there is
\* no resolver, pointer exactly when a resolver is set.
C40_TagAgreesWithSlots ==
  \A p \in PParams : ~active[p] => tag_agrees(Heap, p)

====
